---------------------------- MODULE Spec2Model ----------------------------
(***************************************************************************)
(* A model of the trajectory scripts of the openscenario repository.       *)
(*                                                                         *)
(* The scripts compute in floating point.  The model computes in exact     *)
(* fixed point:                                                            *)
(*     length        millimetre           time       millisecond           *)
(*     speed         millimetre / second  angle      microradian           *)
(*     acceleration  millimetre / second^2                                 *)
(*     curvature     1e-7 / metre         sin, cos   1e-4                  *)
(* A product or a quotient of two quantities is rounded to the nearest     *)
(* unit (RoundDiv, MulDiv), int(x) is the floor of the exact quotient.     *)
(*                                                                         *)
(* Each script is one group of variables; a specification runs one script  *)
(* (SpecTrajectories: three generators, one after another) and leaves the  *)
(* variables of the other scripts as Init set them.                        *)
(***************************************************************************)
EXTENDS Integers, Sequences, FiniteSets, TLC

(***************************************************************************)
(* Arithmetic helpers (Python's math module and float operators).          *)
(***************************************************************************)
Abs(n) == IF n < 0 THEN -n ELSE n

Sign(n) == IF n < 0 THEN -1 ELSE 1

Min(a, b) == IF a <= b THEN a ELSE b

\* n / d for d # 0, rounded to the nearest unit (half away from zero).
RoundDiv(n, d) ==
    Sign(n) * Sign(d) * ((2 * Abs(n) + Abs(d)) \div (2 * Abs(d)))

\* int(n / d) for n >= 0, d > 0: Python's int() truncates.
IntDiv(n, d) == n \div d

\* n / d for n >= 0, d > 0, rounded up.
CeilDiv(n, d) == (n + d - 1) \div d

\* floor(a * b / c) for c > 0, without forming the product a * b.
MulDiv(a, b, c) == (a \div c) * b + ((a % c) * b) \div c

RECURSIVE MulDivPair(_, _, _)
\* <<q, r>> with a * b = q * c + r and 0 <= r < c, for a, b >= 0 and c > 0,
\* without forming the product a * b.
MulDivPair(a, b, c) ==
    IF b = 0 THEN <<0, 0>>
    ELSE LET h == MulDivPair(a, b \div 2, c)
             t == 2 * h[2] + (b % 2) * a
         IN  <<2 * h[1] + t \div c, t % c>>

\* a * b / c for c > 0, rounded to the nearest unit (half away from zero).
MulDivRound(a, b, c) ==
    LET qr == MulDivPair(Abs(a), Abs(b), c)
    IN  Sign(a) * Sign(b) * (qr[1] + (IF 2 * qr[2] >= c THEN 1 ELSE 0))

RECURSIVE SqrtSearch(_, _, _)
\* The largest r in lo..hi with r * r <= n (lo * lo <= n).
SqrtSearch(n, lo, hi) ==
    IF lo >= hi THEN lo
    ELSE LET mid == (lo + hi + 1) \div 2
         IN  IF mid * mid <= n THEN SqrtSearch(n, mid, hi)
                               ELSE SqrtSearch(n, lo, mid - 1)

\* math.sqrt(n) for 0 <= n < 2^31, rounded to the nearest unit.
Sqrt(n) ==
    LET r == SqrtSearch(n, 0, 46340)
    IN  IF n - r * r > r THEN r + 1 ELSE r

\* math.sqrt(dx**2 + dy**2)
Hypot(dx, dy) == Sqrt(dx * dx + dy * dy)

(***************************************************************************)
(* Exact fractions <<numerator, denominator>>, denominator > 0, in lowest  *)
(* terms: the float arithmetic of QuinticPolynomial without its rounding.  *)
(***************************************************************************)
RECURSIVE GCD(_, _)
GCD(a, b) == IF b = 0 THEN a ELSE GCD(b, a % b)

\* n / d for d # 0
Rat(n, d) ==
    LET g == GCD(Abs(n), Abs(d))
    IN  <<Sign(d) * (n \div g), Abs(d) \div g>>

R(n) == <<n, 1>>

\* The sum over the least common denominator.
RAdd(p, q) ==
    LET g == GCD(p[2], q[2])
    IN  Rat(p[1] * (q[2] \div g) + q[1] * (p[2] \div g), (p[2] \div g) * q[2])

RSub(p, q) == RAdd(p, <<-q[1], q[2]>>)

\* The product, common factors cancelled before multiplying.
RMul(p, q) ==
    LET g == GCD(Abs(p[1]), q[2])
        h == GCD(Abs(q[1]), p[2])
    IN  IF p[1] = 0 \/ q[1] = 0 THEN <<0, 1>>
        ELSE <<(p[1] \div g) * (q[1] \div h), (p[2] \div h) * (q[2] \div g)>>

\* p / q for q # 0
RDiv(p, q) == RMul(p, <<Sign(q[1]) * q[2], Abs(q[1])>>)

RECURSIVE RPow(_, _)
\* p ** n
RPow(p, n) == IF n = 0 THEN R(1) ELSE RMul(p, RPow(p, n - 1))

\* a + b + c, a - b - c
RSum3(a, b, c) == RAdd(RAdd(a, b), c)

\* math.pi, 2 * math.pi, math.pi / 2 in microradian
PI == 3141593
TWO_PI == 6283185
HALF_PI == 1570796

\* (a + math.pi) % (2 * math.pi) - math.pi
normalize_angle(a) == ((a + PI) % TWO_PI) - PI

\* math.sin(x) for -pi/2 <= x <= pi/2 by its Taylor polynomial of degree 9.
SinReduced(x) ==
    LET u  == RoundDiv(Abs(x), 100)
        u2 == RoundDiv(u * u, 10000)
        t3 == RoundDiv(u * u2, 60000)
        t5 == RoundDiv(t3 * u2, 200000)
        t7 == RoundDiv(t5 * u2, 420000)
        t9 == RoundDiv(t7 * u2, 720000)
    IN  Sign(x) * (u - t3 + t5 - t7 + t9)

\* math.sin(a), in 1e-4
Sin(a) ==
    LET w == normalize_angle(a)
    IN  IF w > HALF_PI THEN SinReduced(PI - w)
        ELSE IF w < -HALF_PI THEN SinReduced(-PI - w)
        ELSE SinReduced(w)

\* math.cos(a), in 1e-4
Cos(a) == Sin(a + HALF_PI)

\* s * c for a length s and a sine or cosine c.
Scale(s, c) == RoundDiv(s * c, 10000)

RECURSIVE AtanSearch(_, _, _, _)
\* The angle in lo..hi, 0 <= lo <= hi <= pi/2, whose tangent is ay / ax.
AtanSearch(ay, ax, lo, hi) ==
    IF hi - lo <= 16 THEN (lo + hi) \div 2
    ELSE LET mid == (lo + hi) \div 2
         IN  IF Sin(mid) * ax <= Cos(mid) * ay
             THEN AtanSearch(ay, ax, mid, hi)
             ELSE AtanSearch(ay, ax, lo, mid)

\* math.atan2(dy, dx) for |dy|, |dx| < 200000
Atan2(dy, dx) ==
    LET a == AtanSearch(Abs(dy), Abs(dx), 0, HALF_PI)
    IN  IF dy = 0 /\ dx = 0 THEN 0
        ELSE IF dx >= 0 THEN Sign(dy) * a
        ELSE Sign(dy) * (PI - a)

\* v / 3.6 for a speed v in km/h, rounded up: in binary floating point
\* 30 / 3.6 * 0.1 lies above 5 / 6 and 15 / 3.6 * 0.1 above 5 / 12, so that
\* int(5.0 / (speed * DT)) is 5, not 6, and int(15.0 / (speed * DT)) 35, not 36.
speed_of_kmh(v) == CeilDiv(v * 10000, 36)

(***************************************************************************)
(* Bounds of the model.                                                    *)
(***************************************************************************)
\* The longest list of <Vertex> elements of an input document.
MaxRaw == 2
\* The longest whole duration a QuinticPolynomial is constructed with.
MaxT == 3

(***************************************************************************)
(* VT1accTrajectory.py: calculate_trajectory_points                        *)
(***************************************************************************)
VARIABLES
    ACC,                \* line 14, mm/s^2
    TARGET_SPEED_KMH,   \* line 15, km/h
    xosc_file,          \* the document named by the argument
    vt1_pc,             \* the position in calculate_trajectory_points
    vt1_err,            \* the exception that ended the call, or "none"
    raw_points,         \* line 49
    final_points,       \* line 105
    vt1_step,           \* the loop variable: step (line 115), i (line 154)
    output_file         \* the vertices written to VT1_trajectory_output.txt

vt1Vars == <<ACC, TARGET_SPEED_KMH, xosc_file, vt1_pc, vt1_err, raw_points,
             final_points, vt1_step, output_file>>

\* keshihua.calc_coords and track.calc_point_on_arc, called on their own.
VARIABLES
    arc_fn,             \* the function called, or "none"
    arc_in,             \* its arguments x0, y0, h0, s, k
    arc_out             \* its result x, y, h

arcVars == <<arc_fn, arc_in, arc_out>>

\* generate_VT1.QuinticPolynomial, constructed and evaluated on its own.
VARIABLES
    q_pc,               \* "new", "built", "raised", or "idle"
    q_args,             \* xs, vxs, axs, xe, vxe, axe, time
    q_poly,             \* self.a0 .. self.a5
    q_err,              \* the exception __init__ raised, or "none"
    q_eval              \* the last evaluation: t, and the three results

quinticVars == <<q_pc, q_args, q_poly, q_err, q_eval>>

\* VUTstraight_round.generate_trajectory
VARIABLES
    VUT_SPEED_KMH,      \* the module constant, in km/h
    vut_pc,             \* "straight", "bezier", "circle", "returned", "idle"
    vut_i,              \* the loop variable i of the running loop
    points,             \* the list points
    current_t,          \* the clock current_t
    vut_ctrl            \* the control points p0, p1, p2, p3

vutVars == <<VUT_SPEED_KMH, vut_pc, vut_i, points, current_t, vut_ctrl>>

\* generate_VT1.plan_trajectory.  A sample is its time 't' and the segment
\* that emitted it; the fields 'x', 'y', 'h', which no time depends on, are
\* left out.
VARIABLES
    plan_pc,            \* "search", "entry", "circle", "clothoid", "snap",
                        \* "straight", "returned", "raised", or "idle"
    plan_i,             \* the loop variable i of the running loop
    plan_points,        \* the list points
    current_time,       \* the clock current_time
    best_T,             \* the duration the entry search selected
    best_entry_angle,   \* the entry angle it selected
    best_poly,          \* whether best_poly_x and best_poly_y are objects
    plan_err            \* the exception raised, or "none"

planVars == <<plan_pc, plan_i, plan_points, current_time, best_T,
              best_entry_angle, best_poly, plan_err>>

\* keshihua.py, the main loop over road_configs
VARIABLES
    road_configs,       \* the list of {'id': .., 'rev': ..}
    k_pc,               \* "road", "gap", "done", "wait", or "idle"
    k_i,                \* the loop variable i, counted from 1
    k_step,             \* the loop variable s_step or g_step
    vut_points,         \* the list vut_points
    k_current_t,        \* the clock current_t
    k_gap               \* p_curr_end and p_next_start of the running gap

keshihuaVars == <<road_configs, k_pc, k_i, k_step, vut_points, k_current_t, k_gap>>

\* track.generate_continuous_path(road_id_sequence, speed_mps, dt)
VARIABLES
    road_id_sequence,   \* the argument road_id_sequence
    track_speed_mps,    \* the argument speed_mps
    track_dt,           \* the argument dt
    track_pc,           \* "run", "returned", "raised", "wait", or "idle"
    track_road,         \* the position of rid in road_id_sequence
    track_seg,          \* the position of seg in segments
    track_i,            \* the loop variable i
    traj_points,        \* the list traj_points
    track_time,         \* the clock current_time
    track_err           \* the exception raised, or "none"

trackVars == <<road_id_sequence, track_speed_mps, track_dt, track_pc, track_road,
               track_seg, track_i, traj_points, track_time, track_err>>

\* generate_VT1.calc_unwinding_clothoid, called on its own.  Its lengths
\* (s, length, step_size, x, y) are in 0.1 millimetre.
VARIABLES
    cl_pc,              \* "new", "loop", "returned", "raised", or "idle"
    cl_args,            \* start_x, start_y, start_h, start_k, length, step_size
    cl_i,               \* the loop variable i
    cl_points,          \* the list points
    cl_curr,            \* curr_x, curr_y, curr_h
    cl_k,               \* the local k of the last pass
    cl_err              \* the exception raised, or "none"

clothoidVars == <<cl_pc, cl_args, cl_i, cl_points, cl_curr, cl_k, cl_err>>

\* xosctojson.py: parse_xosc_to_json and the script around it.
VARIABLES
    xj_doc,             \* the document Roundabout.xosc
    xj_pc,              \* the position in the script
    veh_content,        \* json_data["veh_content"]
    json_file,          \* the content written to output_110000.json, or NoFile
    xj_err,             \* the exception the script caught and printed, or "none"
    xj_clock,           \* the last reading of int(time.time() * 1000)
    creat_time,         \* json_data["creat_time"]
    update_time,        \* json_data["update_time"]
    xj_first            \* the file a run before this one wrote, or NoFile

xoscVars == <<xj_doc, xj_pc, veh_content, json_file, xj_err, xj_clock, creat_time,
              update_time, xj_first>>

\* The vertex writers of generate_VT1.py, track.py and WaypointGeneratorV3.py,
\* each called on one sample.
VARIABLES
    wr_fn,              \* the writer called, or "none"
    wr_in,              \* the sample: time, x, y, h
    wr_pc,              \* "call", "written", or "idle"
    wr_out              \* what the writer wrote for the sample

writerVars == <<wr_fn, wr_in, wr_pc, wr_out>>

\* Nothing written
NoVertex == [lines |-> <<>>, time |-> [places |-> 0, digits |-> 0], attributes |-> <<>>]

\* No writer is called.
IdleWriter ==
    /\ wr_fn = "none"
    /\ wr_in = [t |-> 0, x |-> 0, y |-> 0, h |-> 0]
    /\ wr_pc = "idle"
    /\ wr_out = NoVertex

\* One function of the repository called on its own: the function, its
\* arguments, the loop index it has reached, what it has produced so far.
VARIABLES
    call_fn,            \* the function called, or "none"
    call_in,            \* its arguments
    call_pc,            \* "call", "loop", "returned", "raised", or "idle"
    call_i,             \* the index of the next pass of its loop
    call_out,           \* what it has produced
    call_err            \* the exception it raised, or "none"

callVars == <<call_fn, call_in, call_pc, call_i, call_out, call_err>>

\* No function is called on its own.
IdleCall ==
    /\ call_fn = "none"
    /\ call_in = <<>>
    /\ call_pc = "idle"
    /\ call_i = 0
    /\ call_out = <<>>
    /\ call_err = "none"

vars == <<vt1Vars, arcVars, quinticVars, vutVars, planVars, keshihuaVars, trackVars,
          clothoidVars, xoscVars, writerVars, callVars>>

\* The variables the steps of calculate_trajectory_points leave alone.
notVT1 == <<arcVars, quinticVars, vutVars, planVars, keshihuaVars, trackVars,
            clothoidVars, xoscVars, writerVars, callVars>>

\* The variables the arc functions leave alone.
notArc == <<vt1Vars, quinticVars, vutVars, planVars, keshihuaVars, trackVars,
            clothoidVars, xoscVars, writerVars, callVars>>

\* The variables QuinticPolynomial leaves alone.
notQuintic == <<vt1Vars, arcVars, vutVars, planVars, keshihuaVars, trackVars,
                clothoidVars, xoscVars, writerVars, callVars>>

\* The variables generate_trajectory leaves alone.
notVUT == <<vt1Vars, arcVars, quinticVars, planVars, keshihuaVars, trackVars,
            clothoidVars, xoscVars, writerVars, callVars>>

\* The variables plan_trajectory leaves alone.
notPlan == <<vt1Vars, arcVars, quinticVars, vutVars, keshihuaVars, trackVars,
             clothoidVars, xoscVars, writerVars, callVars>>

NoPoly == [a0 |-> R(0), a1 |-> R(0), a2 |-> R(0), a3 |-> R(0), a4 |-> R(0), a5 |-> R(0)]

NoEval == [t |-> R(-1), point |-> R(0), first |-> R(0), second |-> R(0)]

\* No QuinticPolynomial is being constructed.
IdleQuintic ==
    /\ q_pc = "idle"
    /\ q_args = [xs |-> R(0), vxs |-> R(0), axs |-> R(0), xe |-> R(0),
                 vxe |-> R(0), axe |-> R(0), time |-> R(0)]
    /\ q_poly = NoPoly
    /\ q_err = "none"
    /\ q_eval = NoEval

\* p0 .. p3 before line 62 assigns them.
NoCtrl == [k \in 1..4 |-> [x |-> 0, y |-> 0]]

\* generate_trajectory is not running.
IdleVUT ==
    /\ VUT_SPEED_KMH = 30
    /\ vut_pc = "idle"
    /\ vut_i = 0
    /\ points = <<>>
    /\ current_t = 0
    /\ vut_ctrl = NoCtrl

\* The variables the keshihua loop leaves alone.
notKeshihua == <<vt1Vars, arcVars, quinticVars, vutVars, planVars, trackVars,
                 clothoidVars, xoscVars, writerVars, callVars>>

\* The variables generate_continuous_path leaves alone.
notTrack == <<vt1Vars, arcVars, quinticVars, vutVars, planVars, keshihuaVars,
              clothoidVars, xoscVars, writerVars, callVars>>

NoPose == [x |-> 0, y |-> 0, h |-> 0]

\* The variables calc_unwinding_clothoid leaves alone.
notClothoid == <<vt1Vars, arcVars, quinticVars, vutVars, planVars, keshihuaVars,
                 trackVars, xoscVars, writerVars, callVars>>

\* The variables xosctojson.py leaves alone.
notXosc == <<vt1Vars, arcVars, quinticVars, vutVars, planVars, keshihuaVars, trackVars,
             clothoidVars, writerVars, callVars>>

\* The variables a function called on its own leaves alone.
notCall == <<vt1Vars, arcVars, quinticVars, vutVars, planVars, keshihuaVars, trackVars,
             clothoidVars, xoscVars, writerVars>>

\* The variables the vertex writers leave alone.
notWriter == <<vt1Vars, arcVars, quinticVars, vutVars, planVars, keshihuaVars,
               trackVars, clothoidVars, xoscVars, callVars>>

\* The document holds no element of the name looked for.
NoNode == [kind |-> "absent", vertices |-> <<>>]

\* No output file
NoFile == [written |-> FALSE, creat_time |-> 0, update_time |-> 0, veh_num |-> 0,
           veh_content |-> <<>>]

\* xosctojson.py is not run.
IdleXosc ==
    /\ xj_doc = [parses |-> FALSE, VT1 |-> NoNode, Target |-> NoNode]
    /\ xj_pc = "idle"
    /\ veh_content = <<>>
    /\ json_file = NoFile
    /\ xj_err = "none"
    /\ xj_clock = 0
    /\ creat_time = 0
    /\ update_time = 0
    /\ xj_first = NoFile

\* calc_unwinding_clothoid is not called.
IdleClothoid ==
    /\ cl_pc = "idle"
    /\ cl_args = [start_x |-> 0, start_y |-> 0, start_h |-> 0, start_k |-> 0,
                  length |-> 0, step_size |-> 0]
    /\ cl_i = 0
    /\ cl_points = <<>>
    /\ cl_curr = NoPose
    /\ cl_k = 0
    /\ cl_err = "none"

\* The keshihua loop before it runs, in the state pc.
KeshihuaAt(pc) ==
    /\ road_configs = <<>>
    /\ k_pc = pc
    /\ k_i = 1
    /\ k_step = 0
    /\ vut_points = <<>>
    /\ k_current_t = 0
    /\ k_gap = <<NoPose, NoPose>>

\* generate_continuous_path before it is called, in the state pc.
TrackAt(pc) ==
    /\ road_id_sequence = <<>>
    /\ track_speed_mps = 0
    /\ track_dt = 0
    /\ track_pc = pc
    /\ track_road = 1
    /\ track_seg = 1
    /\ track_i = 0
    /\ traj_points = <<>>
    /\ track_time = 0
    /\ track_err = "none"

\* Neither generator runs.
IdleRoads == KeshihuaAt("idle") /\ TrackAt("idle")

\* plan_trajectory is not running.
IdlePlan ==
    /\ plan_pc = "idle"
    /\ plan_i = 0
    /\ plan_points = <<>>
    /\ current_time = 0
    /\ best_T = 0
    /\ best_entry_angle = 0
    /\ best_poly = FALSE
    /\ plan_err = "none"

\* No arc function is being called.
IdleArc ==
    /\ arc_fn = "none"
    /\ arc_in = [x0 |-> 0, y0 |-> 0, h0 |-> 0, s |-> 0, k |-> 0]
    /\ arc_out = [x |-> 0, y |-> 0, h |-> 0]

\* The parameter block as the script ships it.
ACC_SHIPPED == 1500
TARGET_SPEED_KMH_SHIPPED == 15
NEW_START_X == -327680
NEW_START_Y == 122160
ORIGINAL_START_X == -332000
ORIGINAL_START_Y == 118000
\* raw_points[:183]
RAW_LIMIT == 183
\* step_size, 0.1 m
STEP_SIZE == 100

\* The parameter blocks the kinematic profile is exercised with.
AccSet == {-1500, 0, 500, ACC_SHIPPED, 3000}
SpeedSet == {9, TARGET_SPEED_KMH_SHIPPED, 30}

\* <Vertex> elements: with a WorldPosition whose x, y, h parse as floats
\* (ok) or without one (line 80, line 88).
VertexSet ==
    { [ok |-> TRUE,  x |-> -332000, y |-> 118000],
      [ok |-> TRUE,  x |-> -332300, y |-> 117600],
      [ok |-> FALSE, x |-> 0,       y |-> 0] }

VertexLists == UNION { [1..n -> VertexSet] : n \in 0..MaxRaw }

\* The documents: unparsable; without an element named *VT1_Trajectory*;
\* with such an element that has no child ("leaf"); with one that has
\* children, the Vertex elements among its descendants listed in order.
XoscSet ==
    { [parses |-> FALSE, node |-> "absent", vertices |-> <<>>],
      [parses |-> TRUE,  node |-> "absent", vertices |-> <<>>],
      [parses |-> TRUE,  node |-> "leaf",   vertices |-> <<>>] }
    \cup { [parses |-> TRUE, node |-> "tree", vertices |-> vs] :
             vs \in VertexLists }

\* TARGET_SPEED_KMH / 3.6
TARGET_SPEED_MS == RoundDiv(TARGET_SPEED_KMH * 10000, 36)

\* (TARGET_SPEED_MS ** 2) / (2 * ACC), for ACC # 0
acc_distance == RoundDiv(TARGET_SPEED_MS * TARGET_SPEED_MS, 2 * ACC)

\* TARGET_SPEED_MS / ACC, for ACC # 0
acc_time_duration == RoundDiv(1000 * TARGET_SPEED_MS, ACC)

dx_total == ORIGINAL_START_X - NEW_START_X

dy_total == ORIGINAL_START_Y - NEW_START_Y

distance_to_original == Hypot(dx_total, dy_total)

\* int(distance_to_original / step_size)
num_steps == IntDiv(distance_to_original, STEP_SIZE)

\* progress = min(step / num_steps, 1.0) if num_steps > 0 else 1.0,
\* as the fraction <<numerator, denominator>>.
progress(step) ==
    IF num_steps > 0 THEN <<Min(step, num_steps), num_steps>> ELSE <<1, 1>>

\* distance_to_original * progress
curr_distance(step) ==
    RoundDiv(distance_to_original * progress(step)[1], progress(step)[2])

\* round(v, 2) of a speed: to the centimetre per second.
Round2(v) == 10 * RoundDiv(v, 10)

\* math.sqrt(2 * curr_distance / ACC) if curr_distance > 0 else 0.0
accel_time(d) ==
    IF d > 0 THEN Sqrt(MulDiv(2000000, d, ACC)) ELSE 0

\* Lines 124-135: the time, the speed and the stage at travelled distance d.
motion_state_keeps_accelerating(d) ==
    IF d <= acc_distance
    THEN [current_time  |-> accel_time(d),
          current_vel   |-> RoundDiv(ACC * accel_time(d), 1000),
          current_stage |-> "accelerating"]
    ELSE [current_time  |-> acc_time_duration
                              + RoundDiv(1000 * (d - acc_distance), TARGET_SPEED_MS),
          current_vel   |-> RoundDiv(ACC * (acc_time_duration
                              + RoundDiv(1000 * (d - acc_distance), TARGET_SPEED_MS)), 1000),
          current_stage |-> "cruise"]

motion_state_without_factor_two(d) ==
    IF d <= acc_distance
    THEN [current_time  |-> IF d > 0 THEN Sqrt(MulDiv(1000000, d, ACC)) ELSE 0,
          current_vel   |-> RoundDiv(ACC * (IF d > 0 THEN Sqrt(MulDiv(1000000, d, ACC)) ELSE 0), 1000),
          current_stage |-> "accelerating"]
    ELSE [current_time  |-> acc_time_duration
                              + RoundDiv(1000 * (d - acc_distance), TARGET_SPEED_MS),
          current_vel   |-> TARGET_SPEED_MS,
          current_stage |-> "cruise"]

motion_state_cruise_from_zero(d) ==
    IF d <= acc_distance
    THEN [current_time  |-> accel_time(d),
          current_vel   |-> RoundDiv(ACC * accel_time(d), 1000),
          current_stage |-> "accelerating"]
    ELSE [current_time  |-> RoundDiv(1000 * (d - acc_distance), TARGET_SPEED_MS),
          current_vel   |-> TARGET_SPEED_MS,
          current_stage |-> "cruise"]

motion_state(d) ==
    IF d <= acc_distance
    THEN [current_time  |-> accel_time(d),
          current_vel   |-> RoundDiv(ACC * accel_time(d), 1000),
          current_stage |-> "accelerating"]
    ELSE [current_time  |-> acc_time_duration
                              + RoundDiv(1000 * (d - acc_distance), TARGET_SPEED_MS),
          current_vel   |-> TARGET_SPEED_MS,
          current_stage |-> "cruise"]

\* Lines 137-146: the sample of the approach segment at loop index step.
approach_point(step) ==
    LET m == motion_state(curr_distance(step))
    IN  [time     |-> m.current_time,
         x        |-> NEW_START_X + RoundDiv(dx_total * progress(step)[1], progress(step)[2]),
         y        |-> NEW_START_Y + RoundDiv(dy_total * progress(step)[1], progress(step)[2]),
         velocity |-> Round2(m.current_vel),
         acc      |-> IF m.current_stage = "accelerating" THEN ACC ELSE 0,
         stage    |-> m.current_stage]

RECURSIVE cumulative_distance(_, _)
\* Lines 158-163: the length of the polyline pts[1], ..., pts[i].
cumulative_distance(pts, i) ==
    IF i <= 1 THEN 0
    ELSE cumulative_distance(pts, i - 1)
           + Hypot(pts[i].x - pts[i - 1].x, pts[i].y - pts[i - 1].y)

\* final_points[-1]['time'] once the approach segment is complete (line 149)
time_at_original_start == final_points[num_steps + 1].time

\* Lines 155-180: the sample of raw point i (1-based).
raw_point(i) ==
    [time     |-> time_at_original_start
                    + RoundDiv(1000 * cumulative_distance(raw_points, i), TARGET_SPEED_MS),
     x        |-> raw_points[i].x,
     y        |-> raw_points[i].y,
     velocity |-> Round2(TARGET_SPEED_MS),
     acc      |-> 0,
     stage    |-> "cruise"]

\* Lines 71-89: the vertices that carry a parsable WorldPosition, in order.
extract_raw_points(vertices) ==
    SelectSeq(vertices, LAMBDA v : v.ok)

\* Lines 95-97: raw_points[:183]
truncate_raw(pts) ==
    IF Len(pts) > RAW_LIMIT THEN SubSeq(pts, 1, RAW_LIMIT) ELSE pts

InitVT1Run ==
    /\ xosc_file \in XoscSet
    /\ vt1_pc = "parse"
    /\ vt1_err = "none"
    /\ raw_points = <<>>
    /\ final_points = <<>>
    /\ vt1_step = 0
    /\ output_file = <<>>

\* calculate_trajectory_points is not running.
IdleVT1 ==
    /\ ACC = ACC_SHIPPED
    /\ TARGET_SPEED_KMH = TARGET_SPEED_KMH_SHIPPED
    /\ xosc_file = [parses |-> FALSE, node |-> "absent", vertices |-> <<>>]
    /\ vt1_pc = "idle"
    /\ vt1_err = "none"
    /\ raw_points = <<>>
    /\ final_points = <<>>
    /\ vt1_step = 0
    /\ output_file = <<>>

\* The script as shipped.
InitVT1 ==
    /\ ACC = ACC_SHIPPED
    /\ TARGET_SPEED_KMH = TARGET_SPEED_KMH_SHIPPED
    /\ InitVT1Run
    /\ IdleArc
    /\ IdleQuintic
    /\ IdleVUT
    /\ IdlePlan
    /\ IdleRoads
    /\ IdleClothoid
    /\ IdleXosc
    /\ IdleWriter
    /\ IdleCall

\* The script with an edited parameter block.
InitProfile ==
    /\ ACC \in AccSet
    /\ TARGET_SPEED_KMH \in SpeedSet
    /\ InitVT1Run
    /\ IdleArc
    /\ IdleQuintic
    /\ IdleVUT
    /\ IdlePlan
    /\ IdleRoads
    /\ IdleClothoid
    /\ IdleXosc
    /\ IdleWriter
    /\ IdleCall

\* Lines 6-11: ET.parse; a failure is printed and the function returns.
VT1Parse ==
    /\ vt1_pc = "parse"
    /\ vt1_pc' = IF xosc_file.parses THEN "params" ELSE "returned"
    /\ UNCHANGED <<notVT1, ACC, TARGET_SPEED_KMH, xosc_file, vt1_err, raw_points,
                   final_points, vt1_step, output_file>>

\* Lines 14-38: the derived parameters; the division of line 25 raises
\* ZeroDivisionError when ACC is 0.
VT1Params ==
    /\ vt1_pc = "params"
    /\ IF ACC = 0
       THEN vt1_pc' = "raised" /\ vt1_err' = "ZeroDivisionError"
       ELSE vt1_pc' = "extract" /\ vt1_err' = vt1_err
    /\ UNCHANGED <<notVT1, ACC, TARGET_SPEED_KMH, xosc_file, raw_points,
                   final_points, vt1_step, output_file>>

\* Lines 49-102: the trajectory node is looked up and its vertices read.
\* "if not trajectory_node" is true for no node and for an element without
\* children; raw_points[0] of line 100 raises IndexError on an empty list.
VT1Extract ==
    /\ vt1_pc = "extract"
    /\ IF xosc_file.node # "tree"
       THEN /\ vt1_pc' = "returned"
            /\ UNCHANGED <<raw_points, vt1_err>>
       ELSE LET pts == truncate_raw(extract_raw_points(xosc_file.vertices))
            IN  /\ raw_points' = pts
                /\ IF pts = <<>>
                   THEN vt1_pc' = "raised" /\ vt1_err' = "IndexError"
                   ELSE vt1_pc' = "approach" /\ vt1_err' = vt1_err
    /\ UNCHANGED <<notVT1, ACC, TARGET_SPEED_KMH, xosc_file, final_points, vt1_step,
                   output_file>>

\* Lines 115-146: one iteration of the approach loop, range(num_steps + 1).
VT1ApproachStep ==
    /\ vt1_pc = "approach"
    /\ vt1_step <= num_steps
    /\ final_points' = Append(final_points, approach_point(vt1_step))
    /\ vt1_step' = vt1_step + 1
    /\ UNCHANGED <<notVT1, ACC, TARGET_SPEED_KMH, xosc_file, vt1_pc, vt1_err,
                   raw_points, output_file>>

\* Line 149: the approach loop is over.
VT1ApproachDone ==
    /\ vt1_pc = "approach"
    /\ vt1_step > num_steps
    /\ vt1_pc' = "raw"
    /\ vt1_step' = 0
    /\ UNCHANGED <<notVT1, ACC, TARGET_SPEED_KMH, xosc_file, vt1_err, raw_points,
                   final_points, output_file>>

\* Lines 154-180: one iteration of the raw loop, range(total_raw_points).
VT1RawStep ==
    /\ vt1_pc = "raw"
    /\ vt1_step < Len(raw_points)
    /\ final_points' = Append(final_points, raw_point(vt1_step + 1))
    /\ vt1_step' = vt1_step + 1
    /\ UNCHANGED <<notVT1, ACC, TARGET_SPEED_KMH, xosc_file, vt1_pc, vt1_err,
                   raw_points, output_file>>

\* Lines 203-214: every point becomes a Vertex and the file is written.
VT1Write ==
    /\ vt1_pc = "raw"
    /\ vt1_step >= Len(raw_points)
    /\ output_file' = [i \in 1..Len(final_points) |->
                          [time |-> final_points[i].time,
                           x    |-> final_points[i].x,
                           y    |-> final_points[i].y]]
    /\ vt1_pc' = "done"
    /\ UNCHANGED <<notVT1, ACC, TARGET_SPEED_KMH, xosc_file, vt1_err, raw_points,
                   final_points, vt1_step>>

NextVT1 ==
    \/ VT1Parse
    \/ VT1Params
    \/ VT1Extract
    \/ VT1ApproachStep
    \/ VT1ApproachDone
    \/ VT1RawStep
    \/ VT1Write

SpecVT1 == InitVT1 /\ [][NextVT1]_vars

SpecProfile == InitProfile /\ [][NextVT1]_vars

Spec == SpecVT1

(***************************************************************************)
(* Claims about calculate_trajectory_points.                               *)
(***************************************************************************)
\* The samples of the approach segment that final_points holds so far.
ApproachIndices == 1..Min(Len(final_points), num_steps + 1)

\* t is math.sqrt(n) rounded to the nearest unit.
IsRoundedSqrt(t, n) ==
    /\ t >= 0
    /\ n <= t * t + t
    /\ t = 0 \/ n >= t * t - t + 1

\* C3: final_points starts at time 0 and its times increase strictly, the
\* first raw point included: it comes strictly later than the last sample
\* of the approach segment.
C3_FinalPointsStrictlyIncreasing ==
    /\ final_points # <<>> => final_points[1].time = 0
    /\ \A i \in 1..(Len(final_points) - 1) :
          final_points[i].time < final_points[i + 1].time

\* C4: for a positive acceleration, an approach sample at travelled
\* distance d <= V^2/(2a) has time sqrt(2d/a) and speed a * time (both 0 at
\* d = 0), a sample beyond it has time V/a + (d - V^2/(2a))/V and speed V,
\* and the two branches give the same time at d = V^2/(2a), all to the
\* resolution the samples are stored with.
C4_ProfileBranches ==
    ACC > 0 =>
      /\ \A i \in ApproachIndices :
            LET d == curr_distance(i - 1)
                p == final_points[i]
            IN  IF d <= acc_distance
                THEN /\ IsRoundedSqrt(p.time, MulDiv(2000000, d, ACC))
                     /\ p.velocity = Round2(RoundDiv(ACC * p.time, 1000))
                     /\ d = 0 => p.time = 0 /\ p.velocity = 0
                ELSE /\ p.time = RoundDiv(1000 * TARGET_SPEED_MS, ACC)
                                   + RoundDiv(1000 * (d - acc_distance), TARGET_SPEED_MS)
                     /\ p.velocity = Round2(TARGET_SPEED_MS)
      /\ Abs(motion_state(acc_distance).current_time
               - (acc_time_duration + 0)) <= 1

\* C4 witness: a run with a positive acceleration whose approach segment
\* holds a sample at d = 0, an accelerating sample at d > 0 and a cruise
\* sample.
C4_Witness ==
    /\ ACC > 0
    /\ vt1_pc = "raw"
    /\ final_points[1].time = 0
    /\ final_points[2].stage = "accelerating"
    /\ final_points[2].time > 0
    /\ final_points[num_steps + 1].stage = "cruise"

\* C5: for a positive acceleration and a positive target speed, time and
\* speed never decrease from one approach sample to the next (the travelled
\* distance grows with the sample index), and at d = V^2/(2a) the speed is V
\* to the centimetre per second.
C5_ProfileMonotonic ==
    (ACC > 0 /\ TARGET_SPEED_MS > 0) =>
      /\ \A i \in ApproachIndices : \A j \in ApproachIndices :
            (i + 1 = j) =>
              /\ curr_distance(i - 1) <= curr_distance(j - 1)
              /\ final_points[i].time <= final_points[j].time
              /\ final_points[i].velocity <= final_points[j].velocity
      /\ Abs(motion_state(acc_distance).current_vel - TARGET_SPEED_MS) <= 10

\* C5 witness: an approach segment, complete, that accelerates and then
\* cruises, so that the comparison crosses the switch of the branches.
C5_Witness ==
    /\ ACC > 0
    /\ vt1_pc = "raw"
    /\ \E i \in 1..num_steps :
          /\ final_points[i].stage = "accelerating"
          /\ final_points[i + 1].stage = "cruise"
          /\ final_points[i].time < final_points[i + 1].time

\* C6: in the output of the script as shipped no speed exceeds the target
\* speed (as the samples store it, to the centimetre per second), the
\* approach segment ends at the target speed, and a sample at the target
\* speed or in stage cruise is followed only by samples in stage cruise
\* with the target speed and acceleration 0.
C6_CruiseSpeedHeld ==
    LET V == Round2(TARGET_SPEED_MS)
    IN  /\ \A i \in 1..Len(final_points) : final_points[i].velocity <= V
        /\ vt1_pc \in {"raw", "done"} =>
              /\ final_points[num_steps + 1].velocity = V
              /\ final_points[num_steps + 1].stage = "cruise"
        /\ \A i \in 1..(Len(final_points) - 1) :
              (final_points[i].velocity = V \/ final_points[i].stage = "cruise") =>
                 /\ final_points[i + 1].velocity = V
                 /\ final_points[i + 1].acc = 0
                 /\ final_points[i + 1].stage = "cruise"

\* C6 witness: the file is written from a list that starts accelerating
\* and ends with two raw points.
C6_Witness ==
    /\ vt1_pc = "done"
    /\ Len(raw_points) = 2
    /\ final_points[2].stage = "accelerating"
    /\ Len(final_points) = num_steps + 3
    /\ output_file # <<>>

\* C7: with a non-positive acceleration (and the positive displacement
\* from the new start to the original start) the run ends in a DomainError:
\* it appends no sample, writes no file and raises nothing else.
C7_NonPositiveAccelerationRaisesDomainError ==
    (ACC <= 0 /\ distance_to_original > 0) =>
       /\ final_points = <<>>
       /\ output_file = <<>>
       /\ vt1_err \in {"none", "DomainError"}
       /\ vt1_pc \notin {"parse", "params", "returned"} => vt1_err = "DomainError"

(***************************************************************************)
(* keshihua.py: calc_coords; track.py: calc_point_on_arc                   *)
(***************************************************************************)
\* 1e-9 (keshihua.py) and 1e-6 (track.py), in 1e-9 / metre
KESHIHUA_EPS == 1
TRACK_EPS == 1000

\* abs(k) < eps, for k in 1e-7 / metre and eps in 1e-9 / metre
below_eps(k, eps) == Abs(k) * 100 < eps

\* s * k, an angle
arc_turn(s, k) == MulDiv(k, s, 10000)

\* d / k for a difference d of two sines or cosines and k # 0, a length
over_k(d, k) == Sign(d) * Sign(k) * MulDiv(Abs(d) * 1000, 1000, Abs(k))

\* The straight branch of both functions.
line_point(x0, y0, h0, s) ==
    [x |-> x0 + Scale(s, Cos(h0)),
     y |-> y0 + Scale(s, Sin(h0)),
     h |-> h0]

\* The circular branch of both functions.
arc_point(x0, y0, h0, s, k) ==
    LET h == h0 + arc_turn(s, k)
    IN  [x |-> x0 + over_k(Sin(h) - Sin(h0), k),
         y |-> y0 + over_k(Cos(h0) - Cos(h), k),
         h |-> h]

\* keshihua.py, lines 26-36
calc_coords(x0, y0, h0, s, k) ==
    IF below_eps(k, KESHIHUA_EPS)
    THEN line_point(x0, y0, h0, s)
    ELSE arc_point(x0, y0, h0, s, k)

calc_point_on_arc_without_abs(x0, y0, h0, s, k) ==
    IF k * 100 < TRACK_EPS
    THEN line_point(x0, y0, h0, s)
    ELSE arc_point(x0, y0, h0, s, k)

\* track.py, lines 38-50
calc_point_on_arc(x0, y0, h0, s, k) ==
    IF below_eps(k, TRACK_EPS)
    THEN line_point(x0, y0, h0, s)
    ELSE arc_point(x0, y0, h0, s, k)

\* The arguments the two functions are called with: start poses, offsets
\* and curvatures of roads_db, and curvatures at and around the epsilons.
ArcStartSet == { <<-360844, 119543, 2247000>>, <<-359009, 110822, -1207000>>,
                 <<-363009, 117806, 5389000>>, <<0, 0, 0>> }
ArcOffsetSet == {0, 1000, 7114, 9024}
ArcCurvatureSet == {0, 5, -5, 9, 10, -10, 37700, -818700, 1058000}

ArcInputSet ==
    { [x0 |-> p[1], y0 |-> p[2], h0 |-> p[3], s |-> s, k |-> k] :
        p \in ArcStartSet, s \in ArcOffsetSet, k \in ArcCurvatureSet }

InitArc ==
    /\ arc_fn = "none"
    /\ arc_in \in ArcInputSet
    /\ arc_out = [x |-> 0, y |-> 0, h |-> 0]
    /\ IdleVT1
    /\ IdleQuintic
    /\ IdleVUT
    /\ IdlePlan
    /\ IdleRoads
    /\ IdleClothoid
    /\ IdleXosc
    /\ IdleWriter
    /\ IdleCall

\* keshihua.calc_coords(x0, y0, h0, s, k)
CallCalcCoords ==
    /\ arc_fn = "none"
    /\ arc_fn' = "calc_coords"
    /\ arc_out' = calc_coords(arc_in.x0, arc_in.y0, arc_in.h0, arc_in.s, arc_in.k)
    /\ UNCHANGED <<notArc, arc_in>>

\* track.calc_point_on_arc(x0, y0, h0, s, k)
CallCalcPointOnArc ==
    /\ arc_fn = "none"
    /\ arc_fn' = "calc_point_on_arc"
    /\ arc_out' = calc_point_on_arc(arc_in.x0, arc_in.y0, arc_in.h0, arc_in.s, arc_in.k)
    /\ UNCHANGED <<notArc, arc_in>>

NextArc ==
    \/ CallCalcCoords
    \/ CallCalcPointOnArc

SpecArc == InitArc /\ [][NextArc]_vars

(***************************************************************************)
(* Claims about the arc functions.                                         *)
(***************************************************************************)
\* C8: a call with |k| at or above the function's epsilon returns the
\* heading h = h0 + k*s and the position (x0 + (sin h - sin h0)/k,
\* y0 + (cos h0 - cos h)/k); a call with |k| below it returns the point of
\* the line, (x0 + s*cos h0, y0 + s*sin h0, h0), in which k does not occur.
C8_ArcOrLine ==
    arc_fn # "none" =>
      LET eps == IF arc_fn = "calc_coords" THEN KESHIHUA_EPS ELSE TRACK_EPS
          a   == arc_in
          h   == a.h0 + MulDiv(a.k, a.s, 10000)
      IN  IF Abs(a.k) * 100 >= eps
          THEN /\ arc_out.h = h
               /\ arc_out.x = a.x0 + over_k(Sin(h) - Sin(a.h0), a.k)
               /\ arc_out.y = a.y0 + over_k(Cos(a.h0) - Cos(h), a.k)
          ELSE /\ arc_out.h = a.h0
               /\ arc_out.x = a.x0 + RoundDiv(a.s * Cos(a.h0), 10000)
               /\ arc_out.y = a.y0 + RoundDiv(a.s * Sin(a.h0), 10000)

\* C8 witness: track's function called with a curvature that is not 0 and
\* is below its epsilon, at a positive offset: it returns the start heading
\* although k*s is not 0.
C8_Witness ==
    /\ arc_fn = "calc_point_on_arc"
    /\ arc_in.k # 0
    /\ Abs(arc_in.k) * 100 < TRACK_EPS
    /\ arc_turn(arc_in.s, arc_in.k) # 0
    /\ arc_out.h = arc_in.h0

(***************************************************************************)
(* generate_VT1.py: QuinticPolynomial                                      *)
(***************************************************************************)
\* Line 42: the powers t, t2, t3, t4, t5 of time.
time_powers(t) == [n \in 1..5 |-> RPow(t, n)]

\* Lines 43-45: the matrix A11 .. A33.
quintic_matrix(t) ==
    LET tp == time_powers(t)
    IN  << <<tp[3], tp[4], tp[5]>>,
           <<RMul(R(3), tp[2]), RMul(R(4), tp[3]), RMul(R(5), tp[4])>>,
           <<RMul(R(6), tp[1]), RMul(R(12), tp[2]), RMul(R(20), tp[3])>> >>

\* Line 46: b1
quintic_b1(a0, a1, a2, xe, t) ==
    RSub(RSub(RSub(xe, a0), RMul(a1, t)), RMul(a2, RPow(t, 2)))

quintic_b2_without_factor_two(a1, a2, vxe, t) ==
    RSub(RSub(vxe, a1), RMul(a2, t))

\* Line 47: b2
quintic_b2(a1, a2, vxe, t) ==
    RSub(RSub(vxe, a1), RMul(RMul(R(2), a2), t))

\* Line 48: b3
quintic_b3(a2, axe) == RSub(axe, RMul(R(2), a2))

\* c1*(c2*c3 - c4*c5), one term of a 3x3 determinant
det_term(c1, c2, c3, c4, c5) == RMul(c1, RSub(RMul(c2, c3), RMul(c4, c5)))

\* Line 49: det_A
quintic_det_A(A) ==
    RAdd(RSub(det_term(A[1][1], A[2][2], A[3][3], A[2][3], A[3][2]),
              det_term(A[1][2], A[2][1], A[3][3], A[2][3], A[3][1])),
         det_term(A[1][3], A[2][1], A[3][2], A[2][2], A[3][1]))

\* Line 50: det_X
quintic_det_X(A, b1, b2, b3) ==
    RAdd(RSub(det_term(b1, A[2][2], A[3][3], A[2][3], A[3][2]),
              det_term(A[1][2], b2, A[3][3], A[2][3], b3)),
         det_term(A[1][3], b2, A[3][2], A[2][2], b3))

\* Line 51: det_Y
quintic_det_Y(A, b1, b2, b3) ==
    RAdd(RSub(det_term(A[1][1], b2, A[3][3], A[2][3], b3),
              det_term(b1, A[2][1], A[3][3], A[2][3], A[3][1])),
         det_term(A[1][3], A[2][1], b3, b2, A[3][1]))

\* Line 52: det_Z
quintic_det_Z(A, b1, b2, b3) ==
    RAdd(RSub(det_term(A[1][1], A[2][2], b3, b2, A[3][2]),
              det_term(A[1][2], A[2][1], b3, b2, A[3][1])),
         det_term(b1, A[2][1], A[3][2], A[2][2], A[3][1]))

\* Line 53: det_N / det_A raises ZeroDivisionError for det_A = 0.
cramer_quotient(det_N, det_A) ==
    IF det_A = R(0) THEN [raised |-> TRUE, value |-> R(0)]
    ELSE [raised |-> FALSE, value |-> RDiv(det_N, det_A)]

\* Lines 40-53: __init__; the object, or the exception it raises.
QuinticPolynomial(xs, vxs, axs, xe, vxe, axe, time) ==
    LET a0 == xs
        a1 == vxs
        a2 == RDiv(axs, R(2))
        A  == quintic_matrix(time)
        b1 == quintic_b1(a0, a1, a2, xe, time)
        b2 == quintic_b2(a1, a2, vxe, time)
        b3 == quintic_b3(a2, axe)
        a3 == cramer_quotient(quintic_det_X(A, b1, b2, b3), quintic_det_A(A))
        a4 == cramer_quotient(quintic_det_Y(A, b1, b2, b3), quintic_det_A(A))
        a5 == cramer_quotient(quintic_det_Z(A, b1, b2, b3), quintic_det_A(A))
    IN  IF a3.raised \/ a4.raised \/ a5.raised
        THEN [err |-> "ZeroDivisionError", poly |-> NoPoly]
        ELSE [err |-> "none",
              poly |-> [a0 |-> a0, a1 |-> a1, a2 |-> a2,
                        a3 |-> a3.value, a4 |-> a4.value, a5 |-> a5.value]]

\* A polynomial c0 + c1*t + ... + c5*t**5 at t.
poly_value(c, t) ==
    RAdd(RSum3(c[1], RMul(c[2], t), RMul(c[3], RPow(t, 2))),
         RSum3(RMul(c[4], RPow(t, 3)), RMul(c[5], RPow(t, 4)), RMul(c[6], RPow(t, 5))))

\* Lines 55-56
calc_point(self, t) ==
    poly_value(<<self.a0, self.a1, self.a2, self.a3, self.a4, self.a5>>, t)

\* Lines 57-58
calc_first_derivative(self, t) ==
    poly_value(<<self.a1, RMul(R(2), self.a2), RMul(R(3), self.a3),
                 RMul(R(4), self.a4), RMul(R(5), self.a5), R(0)>>, t)

\* Lines 59-60
calc_second_derivative(self, t) ==
    poly_value(<<RMul(R(2), self.a2), RMul(R(6), self.a3), RMul(R(12), self.a4),
                 RMul(R(20), self.a5), R(0), R(0)>>, t)

\* The durations: whole ones, and 2.5, the first of search_times.
QuinticTimeSet == { R(n) : n \in 0..MaxT } \cup { <<5, 2>> }

\* The boundary values.
QuinticArgSet ==
    { [xs |-> R(xs), vxs |-> R(vxs), axs |-> R(axs), xe |-> R(xe),
       vxe |-> R(vxe), axe |-> R(axe), time |-> T] :
        xs \in {0, 3}, vxs \in {-1, 2}, axs \in {0, 1}, xe \in {-2, 5},
        vxe \in {0, 1}, axe \in {0, -3}, T \in QuinticTimeSet }

InitQuintic ==
    /\ q_pc = "new"
    /\ q_args \in QuinticArgSet
    /\ q_poly = NoPoly
    /\ q_err = "none"
    /\ q_eval = NoEval
    /\ IdleVT1
    /\ IdleArc
    /\ IdleVUT
    /\ IdlePlan
    /\ IdleRoads
    /\ IdleClothoid
    /\ IdleXosc
    /\ IdleWriter
    /\ IdleCall

\* QuinticPolynomial(xs, vxs, axs, xe, vxe, axe, time)
QuinticConstruct ==
    /\ q_pc = "new"
    /\ LET r == QuinticPolynomial(q_args.xs, q_args.vxs, q_args.axs, q_args.xe,
                                  q_args.vxe, q_args.axe, q_args.time)
       IN  /\ q_err' = r.err
           /\ q_poly' = r.poly
           /\ q_pc' = IF r.err = "none" THEN "built" ELSE "raised"
    /\ UNCHANGED <<notQuintic, q_args, q_eval>>

\* calc_point(t), calc_first_derivative(t), calc_second_derivative(t) at
\* the start, the middle (line 115) or the end of the duration.
QuinticEvaluate ==
    /\ q_pc = "built"
    /\ \E t \in {R(0), RDiv(q_args.time, R(2)), q_args.time} :
          q_eval' = [t      |-> t,
                     point  |-> calc_point(q_poly, t),
                     first  |-> calc_first_derivative(q_poly, t),
                     second |-> calc_second_derivative(q_poly, t)]
    /\ UNCHANGED <<notQuintic, q_pc, q_args, q_poly, q_err>>

NextQuintic ==
    \/ QuinticConstruct
    \/ QuinticEvaluate

SpecQuintic == InitQuintic /\ [][NextQuintic]_vars

(***************************************************************************)
(* Claims about QuinticPolynomial.                                         *)
(***************************************************************************)
\* C9: a QuinticPolynomial constructed with time # 0 evaluates at t = 0 to
\* xs, vxs, axs and at t = time to xe, vxe, axe (point, first derivative,
\* second derivative), exactly.
C9_BoundaryConditions ==
    (q_pc = "built" /\ q_args.time # R(0)) =>
      /\ q_eval.t = R(0) =>
            /\ q_eval.point = q_args.xs
            /\ q_eval.first = q_args.vxs
            /\ q_eval.second = q_args.axs
      /\ q_eval.t = q_args.time =>
            /\ q_eval.point = q_args.xe
            /\ q_eval.first = q_args.vxe
            /\ q_eval.second = q_args.axe

\* C9 witness: an evaluation at the end of a duration of 2.5 with an odd
\* start acceleration and an end state that differs from the start state.
C9_Witness ==
    /\ q_pc = "built"
    /\ q_args.time = <<5, 2>>
    /\ q_eval.t = q_args.time
    /\ q_args.axs = R(1)
    /\ q_eval.point = q_args.xe /\ q_args.xe # q_args.xs
    /\ q_eval.second = R(-3)

\* C10: a construction whose determinant is zero fails with a
\* SingularSystemError, and the determinant is zero for time = 0 only.
C10_SingularSystemError ==
    /\ quintic_det_A(quintic_matrix(q_args.time)) = R(0) <=> q_args.time = R(0)
    /\ (q_pc \notin {"new", "idle"}
          /\ quintic_det_A(quintic_matrix(q_args.time)) = R(0)) =>
             /\ q_pc = "raised"
             /\ q_err = "SingularSystemError"

(***************************************************************************)
(* VUTstraight_round.py: generate_trajectory                               *)
(***************************************************************************)
VUT_START_X == -372000
VUT_START_Y == 131000
VUT_START_H == -860600
VUT_SPEED_KMH_SHIPPED == 30
DT == 100
CENTER_X == -345180
CENTER_Y == 100730
RADIUS == 13000
best_straight_len == 5000
entry_angle_rad == 3420000
curve_steps == 25

\* The speeds the module constant is varied over.
VutSpeedSet == {25, VUT_SPEED_KMH_SHIPPED, 40}

\* Lines 30-34
get_circle_pt(angle) ==
    [x |-> CENTER_X + Scale(RADIUS, Cos(angle)),
     y |-> CENTER_Y + Scale(RADIUS, Sin(angle)),
     h |-> normalize_angle(angle + HALF_PI)]

\* Line 39
speed_mps == speed_of_kmh(VUT_SPEED_KMH)

\* Line 47
steps_straight == IntDiv(best_straight_len * 1000, speed_mps * DT)

\* Lines 52-54: the straight sample i
straight_point(i) ==
    LET dist == RoundDiv(i * DT * speed_mps, 1000)
    IN  [x |-> VUT_START_X + Scale(dist, Cos(VUT_START_H)),
         y |-> VUT_START_Y + Scale(dist, Sin(VUT_START_H)),
         h |-> VUT_START_H]

\* Line 60
entry_pt == get_circle_pt(entry_angle_rad)

\* Lines 65-67, from p0 and p3
ctrl_len(p0, p3) == Hypot(p3.x - p0.x, p3.y - p0.y) \div 2

\* Lines 62-63, 69-72: the control points p0 .. p3 for the last straight
\* sample p_end_straight and the circle entry
bezier_ctrl(p_end_straight, entry) ==
    LET len == ctrl_len(p_end_straight, entry)
    IN  << [x |-> p_end_straight.x, y |-> p_end_straight.y],
           [x |-> p_end_straight.x + Scale(len, Cos(p_end_straight.h)),
            y |-> p_end_straight.y + Scale(len, Sin(p_end_straight.h))],
           [x |-> entry.x - Scale(len, Cos(entry.h)),
            y |-> entry.y - Scale(len, Sin(entry.h))],
           [x |-> entry.x, y |-> entry.y] >>

\* Lines 81-82: the cubic Bezier polynomial at t_val = i / n, the weights
\* (summing to 1) applied to the offsets from c0.
bezier_value(c0, c1, c2, c3, i, n) ==
    LET m == n - i
    IN  c0 + RoundDiv(3 * m * m * i * (c1 - c0) + 3 * m * i * i * (c2 - c0)
                        + i * i * i * (c3 - c0), n * n * n)

\* Lines 84-85: its derivative
bezier_slope(c0, c1, c2, c3, i, n) ==
    LET m == n - i
    IN  RoundDiv(3 * m * m * (c1 - c0) + 6 * m * i * (c2 - c1)
                   + 3 * i * i * (c3 - c2), n * n)

\* Lines 78-86: the Bezier sample i
bezier_point(c, i) ==
    [x |-> bezier_value(c[1].x, c[2].x, c[3].x, c[4].x, i, curve_steps),
     y |-> bezier_value(c[1].y, c[2].y, c[3].y, c[4].y, i, curve_steps),
     h |-> Atan2(bezier_slope(c[1].y, c[2].y, c[3].y, c[4].y, i, curve_steps),
                 bezier_slope(c[1].x, c[2].x, c[3].x, c[4].x, i, curve_steps))]

\* Lines 95-98
start_ang == entry_angle_rad

\* Lines 96-98: the end angle for a start angle
end_ang_from(start) ==
    LET e == 3 * HALF_PI + 100000
    IN  IF e < start THEN e + TWO_PI ELSE e

end_ang == end_ang_from(start_ang)

\* Line 100 (generate_VT1.py line 153): angle * RADIUS
arc_length(angle) == RoundDiv(RoundDiv(angle, 100) * RADIUS, 10000)

\* Line 101 (generate_VT1.py line 154): int(arc_len / (speed * DT))
arc_step_count(len, speed) == IntDiv(len * 1000, speed * DT)

\* Line 100
arc_len == arc_length(end_ang - start_ang)

\* Line 101
circle_steps == arc_step_count(arc_len, speed_mps)

\* Lines 106-108: the circle sample i
circle_point(i) ==
    get_circle_pt(start_ang + RoundDiv(i * (end_ang - start_ang), circle_steps))

\* {'t': t, 'x': .., 'y': .., 'h': ..}
timed(t, p) == [t |-> t, x |-> p.x, y |-> p.y, h |-> p.h]

\* The state at the entry of generate_trajectory (lines 37-38).
InitVUTRun ==
    /\ vut_pc = "straight"
    /\ vut_i = 0
    /\ points = <<>>
    /\ current_t = 0
    /\ vut_ctrl = NoCtrl

InitVUT ==
    /\ VUT_SPEED_KMH \in VutSpeedSet
    /\ InitVUTRun
    /\ IdleVT1
    /\ IdleArc
    /\ IdleQuintic
    /\ IdlePlan
    /\ IdleRoads
    /\ IdleClothoid
    /\ IdleXosc
    /\ IdleWriter
    /\ IdleCall

\* Lines 51-57: one pass of the straight loop; after the last pass lines
\* 60-74 set the control points up.
VUTStraightStep ==
    /\ vut_pc = "straight"
    /\ LET p == straight_point(vut_i)
       IN  /\ points' = Append(points, timed(current_t, p))
           /\ IF vut_i < steps_straight
              THEN vut_i' = vut_i + 1 /\ vut_pc' = vut_pc /\ vut_ctrl' = vut_ctrl
              ELSE /\ vut_i' = 1
                   /\ vut_pc' = "bezier"
                   /\ vut_ctrl' = bezier_ctrl(p, entry_pt)
    /\ current_t' = current_t + DT
    /\ UNCHANGED <<notVUT, VUT_SPEED_KMH>>

\* Lines 77-92: one pass of the transition loop
VUTBezierStep ==
    /\ vut_pc = "bezier"
    /\ LET b         == bezier_point(vut_ctrl, vut_i)
           prev_p    == points[Len(points)]
           step_dist == Hypot(b.x - prev_p.x, b.y - prev_p.y)
           t         == current_t + RoundDiv(step_dist * 1000, speed_mps)
       IN  /\ current_t' = t
           /\ points' = Append(points, timed(t, b))
    /\ IF vut_i < curve_steps
       THEN vut_i' = vut_i + 1 /\ vut_pc' = vut_pc
       ELSE vut_i' = 1 /\ vut_pc' = IF circle_steps >= 1 THEN "circle" ELSE "returned"
    /\ UNCHANGED <<notVUT, VUT_SPEED_KMH, vut_ctrl>>

\* Lines 105-110: one pass of the circle loop
VUTCircleStep ==
    /\ vut_pc = "circle"
    /\ points' = Append(points, timed(current_t, circle_point(vut_i)))
    /\ current_t' = current_t + DT
    /\ IF vut_i < circle_steps
       THEN vut_i' = vut_i + 1 /\ vut_pc' = vut_pc
       ELSE vut_i' = vut_i /\ vut_pc' = "returned"
    /\ UNCHANGED <<notVUT, VUT_SPEED_KMH, vut_ctrl>>

NextVUT ==
    \/ VUTStraightStep
    \/ VUTBezierStep
    \/ VUTCircleStep

SpecVUT == InitVUT /\ [][NextVUT]_vars

(***************************************************************************)
(* Claims about VUTstraight_round.generate_trajectory.                     *)
(***************************************************************************)
\* C2: the point list has first time 0 and strictly increasing
\* times over the whole list, the first circle sample after the last
\* Bezier sample and the first Bezier sample after the last straight one.
C2_PointTimesStrictlyIncreasing ==
    /\ Len(points) > 0 => points[1].t = 0
    /\ \A i \in 1..(Len(points) - 1) : points[i].t < points[i + 1].t

(***************************************************************************)
(* generate_VT1.py: plan_trajectory                                        *)
(***************************************************************************)
EXIT_P1_X == -366000
EXIT_P1_Y == 86000
EXIT_P2_X == -397000
EXIT_P2_Y == 58000
SPIRAL_LENGTH == 15000
EXTRA_ROTATION_DEG == 35
SPEED_KMH == 15
snap_dist == 40000
STRAIGHT_SAMPLES == 19

\* Line 29
SPEED_MS == speed_of_kmh(SPEED_KMH)

\* Line 135: 1.0 / RADIUS
k_circle == RoundDiv(1000000000, RADIUS \div 10)

\* Line 97
EXIT_TARGET_H == Atan2(EXIT_P2_Y - EXIT_P1_Y, EXIT_P2_X - EXIT_P1_X)

\* Line 105
search_angles == { i * 100000 : i \in 0..29 }

\* Line 106
search_times == { i * 500 : i \in 5..11 }

\* The outcomes of the entry search (lines 108-124) the model follows: an
\* entry angle and a duration out of search_angles and search_times, the
\* shipped outcome (2.0, 5.5) and an angle behind the exit angle among them.
\* Which candidate has the least cost is not computed.
SearchOutcomeSet == ({0, 1000000, 2000000, 2300000} \cap search_angles) \X search_times

\* Line 126
entry_steps == IntDiv(best_T, DT)

plan_time_after_entry_less_one(t, steps) == t + (steps - 1) * DT

\* Lines 132, 161: current_time += steps * DT
plan_time_after(t, steps) == t + steps * DT

\* Lines 135-136
delta_theta_spiral == MulDiv(500000, SPIRAL_LENGTH, RADIUS)

\* Lines 139-140
ideal_exit_circle_angle ==
    normalize_angle(normalize_angle(EXIT_TARGET_H - delta_theta_spiral) - HALF_PI)

\* Line 143: math.radians
extra_rad == RoundDiv(EXTRA_ROTATION_DEG * PI, 180)

RECURSIVE counter_clockwise(_, _)
\* Lines 147-148
counter_clockwise(exit_angle, entry_angle) ==
    IF exit_angle <= entry_angle + 100000
    THEN counter_clockwise(exit_angle + TWO_PI, entry_angle)
    ELSE exit_angle

\* Lines 144-148
final_exit_circle_angle(entry_angle) ==
    counter_clockwise(ideal_exit_circle_angle + extra_rad, entry_angle)

\* Lines 153-154
plan_circle_steps(entry_angle) ==
    arc_step_count(arc_length(final_exit_circle_angle(entry_angle) - entry_angle), SPEED_MS)

\* Lines 73, 170: the number of clothoid_points[1:]
clothoid_steps == IntDiv(SPIRAL_LENGTH * 1000, SPEED_MS * DT)

\* Line 202
snap_steps == IntDiv(snap_dist * 1000, SPEED_MS * DT)

\* {'t': t, ...} appended by the loop of segment seg
sample(t, seg) == [t |-> t, seg |-> seg]

\* The state at the entry of plan_trajectory (lines 91-92, 104).
InitPlanRun ==
    /\ plan_pc = "search"
    /\ plan_i = 0
    /\ plan_points = <<>>
    /\ current_time = 0
    /\ best_T = 0
    /\ best_entry_angle = 0
    /\ best_poly = FALSE
    /\ plan_err = "none"

\* Lines 104-124: the search selects a candidate, or none passes the filter
\* of line 118 and best_poly_x stays None, best_T 0.
PlanSearch ==
    /\ plan_pc = "search"
    /\ \/ \E c \in SearchOutcomeSet :
             /\ best_entry_angle' = c[1]
             /\ best_T' = c[2]
             /\ best_poly' = TRUE
       \/ UNCHANGED <<best_entry_angle, best_T, best_poly>>
    /\ plan_pc' = "entry"
    /\ UNCHANGED <<notPlan, plan_i, plan_points, current_time, plan_err>>

\* Lines 127-132: one pass of the entry loop; None.calc_point raises.
PlanEntryStep ==
    /\ plan_pc = "entry"
    /\ IF ~best_poly
       THEN /\ plan_pc' = "raised"
            /\ plan_err' = "AttributeError"
            /\ UNCHANGED <<plan_i, plan_points, current_time>>
       ELSE /\ plan_points' = Append(plan_points, sample(current_time + plan_i * DT, "entry"))
            /\ IF plan_i < entry_steps
               THEN /\ plan_i' = plan_i + 1
                    /\ UNCHANGED <<plan_pc, current_time>>
               ELSE /\ plan_i' = 1
                    /\ current_time' = plan_time_after(current_time, entry_steps)
                    /\ plan_pc' = IF plan_circle_steps(best_entry_angle) >= 1
                                  THEN "circle" ELSE "clothoid"
            /\ UNCHANGED plan_err
    /\ UNCHANGED <<notPlan, best_T, best_entry_angle, best_poly>>

\* Lines 156-161: one pass of the circle loop
PlanCircleStep ==
    /\ plan_pc = "circle"
    /\ plan_points' = Append(plan_points, sample(current_time + plan_i * DT, "circle"))
    /\ IF plan_i < plan_circle_steps(best_entry_angle)
       THEN /\ plan_i' = plan_i + 1
            /\ UNCHANGED <<plan_pc, current_time>>
       ELSE /\ plan_i' = 1
            /\ current_time' = plan_time_after(current_time, plan_circle_steps(best_entry_angle))
            /\ plan_pc' = "clothoid"
    /\ UNCHANGED <<notPlan, best_T, best_entry_angle, best_poly, plan_err>>

\* Lines 170-172: one pass of the clothoid loop
PlanClothoidStep ==
    /\ plan_pc = "clothoid"
    /\ current_time' = current_time + DT
    /\ plan_points' = Append(plan_points, sample(current_time + DT, "clothoid"))
    /\ IF plan_i < clothoid_steps
       THEN plan_i' = plan_i + 1 /\ plan_pc' = plan_pc
       ELSE plan_i' = 1 /\ plan_pc' = "snap"
    /\ UNCHANGED <<notPlan, best_T, best_entry_angle, best_poly, plan_err>>

\* Lines 203-210: one pass of the snap loop
PlanSnapStep ==
    /\ plan_pc = "snap"
    /\ current_time' = current_time + DT
    /\ plan_points' = Append(plan_points, sample(current_time + DT, "snap"))
    /\ IF plan_i < snap_steps
       THEN plan_i' = plan_i + 1 /\ plan_pc' = plan_pc
       ELSE plan_i' = 1 /\ plan_pc' = "straight"
    /\ UNCHANGED <<notPlan, best_T, best_entry_angle, best_poly, plan_err>>

\* Lines 213-217: one pass of the final loop, range(1, 20)
PlanStraightStep ==
    /\ plan_pc = "straight"
    /\ plan_points' = Append(plan_points, sample(current_time + plan_i * DT, "straight"))
    /\ IF plan_i < STRAIGHT_SAMPLES
       THEN plan_i' = plan_i + 1 /\ plan_pc' = plan_pc
       ELSE plan_i' = plan_i /\ plan_pc' = "returned"
    /\ UNCHANGED <<notPlan, current_time, best_T, best_entry_angle, best_poly, plan_err>>

NextPlan ==
    \/ PlanSearch
    \/ PlanEntryStep
    \/ PlanCircleStep
    \/ PlanClothoidStep
    \/ PlanSnapStep
    \/ PlanStraightStep

(***************************************************************************)
(* keshihua.py: the road and gap-filling loop                              *)
(***************************************************************************)
\* (s, x, y, hdg, length, curvature)
geometry(s, x, y, hdg, length, k) ==
    [s |-> s, x |-> x, y |-> y, hdg |-> hdg, length |-> length, k |-> k]

\* roads_db of keshihua.py (lines 13-21) and track.py (lines 16-34)
roads_db ==
    ("96"  :> << geometry(0, -360844, 119543, 2247000, 9024, 37700) >>) @@
    ("197" :> << geometry(0, -363009, 117806, 5389000, 8081, -386700),
                 geometry(8081, -359009, 110822, -1207000, 7114, -818700) >>) @@
    ("100" :> << geometry(0, -355037, 103058, -1789000, 4383, 787900) >>) @@
    ("101" :> << geometry(0, -354755, 98763, -1444000, 11189, 1058000) >>) @@
    ("178" :> << geometry(0, -363464, 83910, 762000, 8380, -386200),
                 geometry(8380, -356581, 88625, 439000, 8591, -813600) >>)

KESHIHUA_SPEED_KMH == 30
GAP_THRESHOLD == 100
GEOMETRY_SLACK == 1

\* {'id': rid, 'rev': rev}
road_config(rid, rev) == [id |-> rid, rev |-> rev]

\* Lines 88-93
road_configs_shipped ==
    << road_config("96", TRUE), road_config("197", FALSE),
       road_config("100", FALSE), road_config("101", FALSE) >>

\* The routes the loop is run on: the shipped one, one through road 178, one
\* whose two roads meet without a gap, and a single road.
RouteSet ==
    { road_configs_shipped,
      << road_config("178", FALSE), road_config("101", TRUE) >>,
      << road_config("197", FALSE), road_config("197", TRUE) >>,
      << road_config("100", FALSE) >> }

\* Line 96
k_speed_mps == speed_of_kmh(KESHIHUA_SPEED_KMH)

RECURSIVE length_sum(_, _)
\* sum([g[4] for g in geoms]) over the first n geometries
length_sum(geoms, n) ==
    IF n = 0 THEN 0 ELSE length_sum(geoms, n - 1) + geoms[n].length

\* Line 107
total_len(rid) == length_sum(roads_db[rid], Len(roads_db[rid]))

\* Lines 110-111
road_steps(rid) == IntDiv(total_len(rid) * 1000, k_speed_mps * DT)

\* The end of the geometry g
geometry_end(g) == calc_coords(g.x, g.y, g.hdg, g.length, g.k)

RECURSIVE find_geometry(_, _, _, _)
\* Lines 120-137: the geometry g that local_s falls into, looked up from
\* geometry j on, and the offset s it is evaluated at
find_geometry(geoms, j, acc_s, local_s) ==
    IF j > Len(geoms)
    THEN [g |-> geoms[Len(geoms)], s |-> geoms[Len(geoms)].length]
    ELSE IF local_s <= acc_s + geoms[j].length + GEOMETRY_SLACK
         THEN [g |-> geoms[j], s |-> local_s - acc_s]
         ELSE find_geometry(geoms, j + 1, acc_s + geoms[j].length, local_s)

\* Lines 114, 117
road_local_s(rid, is_rev, s_step) ==
    LET dist_driven == RoundDiv(s_step * DT * k_speed_mps, 1000)
    IN  IF is_rev THEN total_len(rid) - dist_driven ELSE dist_driven

\* Lines 120-137: the geometry and the offset of the road sample s_step
road_lookup(rid, is_rev, s_step) ==
    find_geometry(roads_db[rid], 1, 0, road_local_s(rid, is_rev, s_step))

\* Lines 114-139: the pose of the road sample s_step
road_pose(rid, is_rev, s_step) ==
    LET f == road_lookup(rid, is_rev, s_step)
        p == calc_coords(f.g.x, f.g.y, f.g.hdg, f.s, f.g.k)
    IN  [x |-> p.x, y |-> p.y, h |-> IF is_rev THEN p.h + PI ELSE p.h]

\* Lines 38-53
get_road_end_state(rid, reverse) ==
    LET geoms == roads_db[rid]
    IN  IF ~reverse THEN geometry_end(geoms[Len(geoms)])
        ELSE [x |-> geoms[1].x, y |-> geoms[1].y, h |-> geoms[1].hdg + PI]

\* The forward start of the road, whatever the driving direction
get_road_start_state_forward(rid, reverse) ==
    [x |-> roads_db[rid][1].x, y |-> roads_db[rid][1].y, h |-> roads_db[rid][1].hdg]

\* Lines 55-63
get_road_start_state(rid, reverse) ==
    LET geoms == roads_db[rid]
        e     == get_road_end_state(rid, FALSE)
    IN  IF ~reverse THEN [x |-> geoms[1].x, y |-> geoms[1].y, h |-> geoms[1].hdg]
        ELSE [x |-> e.x, y |-> e.y, h |-> e.h + PI]

\* The control points at half the distance instead
bezier_controls_half(p0, p3) ==
    LET dist == Hypot(p3.x - p0.x, p3.y - p0.y) \div 2
    IN  << [x |-> p0.x + Scale(dist, Cos(p0.h)), y |-> p0.y + Scale(dist, Sin(p0.h))],
           [x |-> p3.x - Scale(dist, Cos(p3.h)), y |-> p3.y - Scale(dist, Sin(p3.h))] >>

\* Lines 69-71: the control points p1, p2
bezier_controls(p0, p3) ==
    LET dist == Hypot(p3.x - p0.x, p3.y - p0.y) \div 3
    IN  << [x |-> p0.x + Scale(dist, Cos(p0.h)), y |-> p0.y + Scale(dist, Sin(p0.h))],
           [x |-> p3.x - Scale(dist, Cos(p3.h)), y |-> p3.y - Scale(dist, Sin(p3.h))] >>

\* Lines 66-81: bezier_interp at t = i / n
bezier_interp(p0, p3, i, n) ==
    LET p1 == bezier_controls(p0, p3)[1]
        p2 == bezier_controls(p0, p3)[2]
    IN  [x |-> bezier_value(p0.x, p1.x, p2.x, p3.x, i, n),
         y |-> bezier_value(p0.y, p1.y, p2.y, p3.y, i, n),
         h |-> Atan2(bezier_slope(p0.y, p1.y, p2.y, p3.y, i, n),
                     bezier_slope(p0.x, p1.x, p2.x, p3.x, i, n))]

\* Line 154
gap_dist(ends) == Hypot(ends[1].x - ends[2].x, ends[1].y - ends[2].y)

\* Lines 160-161
gap_steps(ends) == IntDiv(gap_dist(ends) * 1000, k_speed_mps * DT)

\* The loop starts on the route r (lines 95-99).
KeshihuaStart(r) ==
    /\ road_configs' = r
    /\ k_pc' = "road"
    /\ UNCHANGED <<k_i, k_step, vut_points, k_current_t, k_gap>>

\* Lines 113-142: one pass of the road loop
KRoadStep ==
    /\ k_pc = "road"
    /\ k_step < road_steps(road_configs[k_i].id)
    /\ vut_points' = Append(vut_points,
          timed(k_current_t, road_pose(road_configs[k_i].id, road_configs[k_i].rev, k_step)))
    /\ k_current_t' = k_current_t + DT
    /\ k_step' = k_step + 1
    /\ UNCHANGED <<notKeshihua, road_configs, k_pc, k_i, k_gap>>

\* Lines 145-161: the road is sampled; the gap to the next road is measured
KRoadDone ==
    /\ k_pc = "road"
    /\ k_step >= road_steps(road_configs[k_i].id)
    /\ IF k_i < Len(road_configs)
       THEN LET ends == << get_road_end_state(road_configs[k_i].id, road_configs[k_i].rev),
                           get_road_start_state(road_configs[k_i + 1].id,
                                                road_configs[k_i + 1].rev) >>
            IN  IF gap_dist(ends) > GAP_THRESHOLD
                THEN /\ k_pc' = "gap"
                     /\ k_gap' = ends
                     /\ k_step' = 1
                     /\ k_i' = k_i
                ELSE /\ k_pc' = "road"
                     /\ k_gap' = k_gap
                     /\ k_step' = 0
                     /\ k_i' = k_i + 1
       ELSE /\ k_pc' = "done"
            /\ UNCHANGED <<k_gap, k_step, k_i>>
    /\ UNCHANGED <<notKeshihua, road_configs, vut_points, k_current_t>>

\* Lines 163-167: one pass of the gap loop
KGapStep ==
    /\ k_pc = "gap"
    /\ k_step <= gap_steps(k_gap)
    /\ vut_points' = Append(vut_points,
          timed(k_current_t, bezier_interp(k_gap[1], k_gap[2], k_step, gap_steps(k_gap) + 1)))
    /\ k_current_t' = k_current_t + DT
    /\ k_step' = k_step + 1
    /\ UNCHANGED <<notKeshihua, road_configs, k_pc, k_i, k_gap>>

\* Line 163 ends the gap loop; line 99 takes the next road.
KGapDone ==
    /\ k_pc = "gap"
    /\ k_step > gap_steps(k_gap)
    /\ k_pc' = "road"
    /\ k_step' = 0
    /\ k_i' = k_i + 1
    /\ UNCHANGED <<notKeshihua, road_configs, vut_points, k_current_t, k_gap>>

(***************************************************************************)
(* track.py: generate_continuous_path                                      *)
(***************************************************************************)
\* The arguments of the calls: road id sequences (the one of line 126, an
\* empty one, a single road, one through road 178), speeds of 30 and 15
\* km/h, time steps of 0.1 s, 0.25 s and 0.
TrackSequenceSet ==
    { <<>>, <<"96", "197", "100", "101">>, <<"100">>, <<"178", "101">> }

TrackSpeedSet == { speed_of_kmh(30), speed_of_kmh(15) }

TrackDtSet == {0, DT, 250}

\* roads_db of track.py (lines 16-34) with one more road, of a single
\* geometry of length 0
track_roads_db ==
    roads_db @@ ("zero" :> << geometry(0, 1000, 2000, 500000, 0, 0) >>)

\* A sequence through the road of length 0
ZeroLengthSequence == <<"100", "zero", "101">>

\* Lines 76, 79: the segment the loops are at
track_segment == track_roads_db[road_id_sequence[track_road]][track_seg]

\* Lines 83-84, for dt # 0
track_num_steps(length, speed, dt) == IntDiv(length * 1000, speed * dt)

\* Line 87: the distance driven on the segment at the sample i
track_ds(speed, dt, i) == RoundDiv(speed * i * dt, 1000)

\* Lines 87-88: the pose of the sample i of the segment seg
track_pose(seg, speed, dt, i) ==
    calc_point_on_arc(seg.x, seg.y, seg.hdg, track_ds(speed, dt, i), seg.k)

\* {'time': .., 'x': .., 'y': .., 'h': ..}
track_sample(time, p) == [time |-> time, x |-> p.x, y |-> p.y, h |-> p.h]

\* generate_continuous_path(seq, speed, dt) is called (lines 72-73).
TrackCall(seq, speed, dt) ==
    /\ road_id_sequence' = seq
    /\ track_speed_mps' = speed
    /\ track_dt' = dt
    /\ track_pc' = "run"
    /\ UNCHANGED <<track_road, track_seg, track_i, traj_points, track_time, track_err>>

\* The division by dt raises before any road is looked at.
TrackRaiseBeforeLoop ==
    /\ track_pc = "run"
    /\ track_dt = 0
    /\ track_pc' = "raised"
    /\ track_err' = "ZeroDivisionError"
    /\ UNCHANGED <<notTrack, road_id_sequence, track_speed_mps, track_dt, track_road,
                   track_seg, track_i, traj_points, track_time>>

\* Line 84 with dt = 0: the division raises.
TrackRaise ==
    /\ track_pc = "run"
    /\ track_road <= Len(road_id_sequence)
    /\ track_dt = 0
    /\ track_pc' = "raised"
    /\ track_err' = "ZeroDivisionError"
    /\ UNCHANGED <<notTrack, road_id_sequence, track_speed_mps, track_dt, track_road,
                   track_seg, track_i, traj_points, track_time>>

\* Lines 86-98: one pass of the sample loop
TrackStep ==
    /\ track_pc = "run"
    /\ track_road <= Len(road_id_sequence)
    /\ track_dt # 0
    /\ track_i < track_num_steps(track_segment.length, track_speed_mps, track_dt)
    /\ traj_points' = Append(traj_points,
          track_sample(track_time, track_pose(track_segment, track_speed_mps, track_dt, track_i)))
    /\ track_time' = track_time + track_dt
    /\ track_i' = track_i + 1
    /\ UNCHANGED <<notTrack, road_id_sequence, track_speed_mps, track_dt, track_pc,
                   track_road, track_seg, track_err>>

\* Lines 75, 79: the sample loop is through; the next segment or road
TrackNextSegment ==
    /\ track_pc = "run"
    /\ track_road <= Len(road_id_sequence)
    /\ track_dt # 0
    /\ track_i >= track_num_steps(track_segment.length, track_speed_mps, track_dt)
    /\ track_i' = 0
    /\ IF track_seg < Len(track_roads_db[road_id_sequence[track_road]])
       THEN track_seg' = track_seg + 1 /\ track_road' = track_road
       ELSE track_seg' = 1 /\ track_road' = track_road + 1
    /\ UNCHANGED <<notTrack, road_id_sequence, track_speed_mps, track_dt, track_pc,
                   traj_points, track_time, track_err>>

\* Line 100
TrackReturn ==
    /\ track_pc = "run"
    /\ track_road > Len(road_id_sequence)
    /\ track_pc' = "returned"
    /\ UNCHANGED <<notTrack, road_id_sequence, track_speed_mps, track_dt, track_road,
                   track_seg, track_i, traj_points, track_time, track_err>>

(***************************************************************************)
(* The three generators, run one after another.                            *)
(***************************************************************************)
InitTrajectories ==
    /\ InitPlanRun
    /\ KeshihuaAt("wait")
    /\ TrackAt("wait")
    /\ IdleClothoid
    /\ IdleXosc
    /\ IdleWriter
    /\ IdleVT1
    /\ IdleArc
    /\ IdleQuintic
    /\ IdleVUT
    /\ IdleCall

\* keshihua.py is run once plan_trajectory is through.
KStart ==
    /\ plan_pc \in {"returned", "raised"}
    /\ k_pc = "wait"
    /\ \E r \in RouteSet : KeshihuaStart(r)
    /\ UNCHANGED notKeshihua

\* generate_continuous_path is called once keshihua.py is through.
TrackStart ==
    /\ k_pc = "done"
    /\ track_pc = "wait"
    /\ \E seq \in TrackSequenceSet, speed \in TrackSpeedSet, dt \in TrackDtSet :
          TrackCall(seq, speed, dt)
    /\ UNCHANGED notTrack

NextTrajectories ==
    \/ NextPlan
    \/ KStart
    \/ KRoadStep
    \/ KRoadDone
    \/ KGapStep
    \/ KGapDone
    \/ TrackStart
    \/ TrackRaise
    \/ TrackStep
    \/ TrackNextSegment
    \/ TrackReturn

SpecTrajectories == InitTrajectories /\ [][NextTrajectories]_vars

(***************************************************************************)
(* Claims about the sample times of the three generators.                  *)
(***************************************************************************)
\* The times ts start at 0 and increase strictly.
StrictlyIncreasingFromZero(ts) ==
    /\ Len(ts) > 0 => ts[1] = 0
    /\ \A i \in 1..(Len(ts) - 1) : ts[i] < ts[i + 1]

\* C1: the sample lists of plan_trajectory, of the keshihua road and gap
\* loop and of generate_continuous_path start at time 0 and have strictly
\* increasing times, across every segment boundary.
C1_SampleTimesStrictlyIncreasing ==
    /\ StrictlyIncreasingFromZero([i \in 1..Len(plan_points) |-> plan_points[i].t])
    /\ StrictlyIncreasingFromZero([i \in 1..Len(vut_points) |-> vut_points[i].t])
    /\ StrictlyIncreasingFromZero([i \in 1..Len(traj_points) |-> traj_points[i].time])

\* C1 witness: plan_trajectory has returned the shipped trajectory of 215
\* samples through all five segments, the keshihua loop has sampled the
\* shipped route with its bridges, and generate_continuous_path has
\* returned the samples of the four roads.
C1_Witness ==
    /\ plan_pc = "returned"
    /\ Len(plan_points) = 215
    /\ { plan_points[i].seg : i \in 1..Len(plan_points) }
          = {"entry", "circle", "clothoid", "snap", "straight"}
    /\ k_pc = "done"
    /\ road_configs = road_configs_shipped
    /\ Len(vut_points) = 53
    /\ track_pc = "returned"
    /\ Len(road_id_sequence) = 4
    /\ Len(traj_points) = 45

(***************************************************************************)
(* generate_VT1.py: calc_unwinding_clothoid                                *)
(***************************************************************************)
\* Lines 76, 81: start_k * (1.0 - s / length) at s = s2 / 2, for length # 0
clothoid_k(start_k, s2, length) == MulDivRound(start_k, 2 * length - s2, 2 * length)

clothoid_d_h_at_step_start(start_k, s, length, step_size) ==
    MulDivRound(clothoid_k(start_k, 2 * s, length), step_size, 100000)

\* Lines 80-82: d_h, the turn of the step that starts at s
clothoid_d_h(start_k, s, length, step_size) ==
    MulDivRound(clothoid_k(start_k, 2 * s + step_size, length), step_size, 100000)

\* Lines 83-85: curr_x, curr_y, curr_h after the step that starts at s
clothoid_advance(curr, start_k, s, length, step_size) ==
    LET d_h == clothoid_d_h(start_k, s, length, step_size)
        mid == curr.h + RoundDiv(d_h, 2)
    IN  [x |-> curr.x + Scale(step_size, Cos(mid)),
         y |-> curr.y + Scale(step_size, Sin(mid)),
         h |-> curr.h + d_h]

\* The step count rounded up instead of down
clothoid_step_count_rounded_up(length, step_size) == CeilDiv(length, step_size)

\* Line 73, for step_size # 0
clothoid_step_count(length, step_size) == IntDiv(length, step_size)

\* The arguments of the calls: the shipped curvature 1 / 13 and length 15
\* with the shipped step 0.41667 and with steps that divide the length,
\* a right-hand curvature, a short length, and a length and a step of 0.
ClothoidArgSet ==
    { [start_x |-> p[1], start_y |-> p[2], start_h |-> p[3], start_k |-> k,
       length |-> len, step_size |-> st] :
        p \in { <<0, 0, 0>>, <<-3446000, 877000, 34000>> },
        k \in { 769231, -1000000 },
        len \in { 0, 20000, 150000, 150012 },
        st \in { 0, 4167, 5000 } }

InitClothoid ==
    /\ cl_pc = "new"
    /\ cl_args \in ClothoidArgSet
    /\ cl_i = 0
    /\ cl_points = <<>>
    /\ cl_curr = NoPose
    /\ cl_k = 0
    /\ cl_err = "none"
    /\ IdleVT1
    /\ IdleArc
    /\ IdleQuintic
    /\ IdleVUT
    /\ IdlePlan
    /\ IdleRoads
    /\ IdleXosc
    /\ IdleWriter
    /\ IdleCall

\* Lines 72-74: int(length / step_size) raises for step_size = 0.
ClothoidEnter ==
    /\ cl_pc = "new"
    /\ IF cl_args.step_size = 0
       THEN /\ cl_pc' = "raised"
            /\ cl_err' = "ZeroDivisionError"
            /\ UNCHANGED cl_curr
       ELSE /\ cl_pc' = "loop"
            /\ cl_curr' = [x |-> cl_args.start_x, y |-> cl_args.start_y, h |-> cl_args.start_h]
            /\ UNCHANGED cl_err
    /\ UNCHANGED <<notClothoid, cl_args, cl_i, cl_points, cl_k>>

\* Lines 75-85: one pass of the loop; s / length raises for length = 0.
ClothoidStep ==
    /\ cl_pc = "loop"
    /\ cl_i <= clothoid_step_count(cl_args.length, cl_args.step_size)
    /\ LET s == cl_i * cl_args.step_size
       IN  IF cl_args.length = 0
           THEN /\ cl_pc' = "raised"
                /\ cl_err' = "ZeroDivisionError"
                /\ UNCHANGED <<cl_i, cl_points, cl_curr, cl_k>>
           ELSE /\ cl_k' = clothoid_k(cl_args.start_k, 2 * s, cl_args.length)
                /\ cl_points' = Append(cl_points,
                      [s |-> s, x |-> cl_curr.x, y |-> cl_curr.y, h |-> cl_curr.h])
                /\ cl_curr' =
                      IF cl_i < clothoid_step_count(cl_args.length, cl_args.step_size)
                      THEN clothoid_advance(cl_curr, cl_args.start_k, s,
                                            cl_args.length, cl_args.step_size)
                      ELSE cl_curr
                /\ cl_i' = cl_i + 1
                /\ UNCHANGED <<cl_pc, cl_err>>
    /\ UNCHANGED <<notClothoid, cl_args>>

\* Line 86
ClothoidReturn ==
    /\ cl_pc = "loop"
    /\ cl_i > clothoid_step_count(cl_args.length, cl_args.step_size)
    /\ cl_pc' = "returned"
    /\ UNCHANGED <<notClothoid, cl_args, cl_i, cl_points, cl_curr, cl_k, cl_err>>

NextClothoid ==
    \/ ClothoidEnter
    \/ ClothoidStep
    \/ ClothoidReturn

SpecClothoid == InitClothoid /\ [][NextClothoid]_vars

(***************************************************************************)
(* Claims about calc_unwinding_clothoid.                                   *)
(***************************************************************************)
\* C11: the curvature at the first returned point equals start_k and the
\* curvature at the last returned point is 0: the last point is at
\* s = length.
C11_CurvatureFromStartToZero ==
    cl_pc = "returned" =>
      /\ clothoid_k(cl_args.start_k, 2 * cl_points[1].s, cl_args.length) = cl_args.start_k
      /\ cl_points[Len(cl_points)].s = cl_args.length
      /\ cl_k = 0
\* The returned list ends at s = length.
ClothoidWholeSteps ==
    /\ cl_pc = "returned"
    /\ clothoid_step_count(cl_args.length, cl_args.step_size) * cl_args.step_size
          = cl_args.length

\* C12: every step turns the heading by the curvature at the middle of the
\* step times the step, and a clothoid whose length is a whole number of
\* steps ends at the heading start_h + 0.5 * start_k * length (to the
\* rounding of one microradian per step), which for the curvature and the
\* length of plan_trajectory is its delta_theta_spiral.
C12_MidpointHeadingIncrement ==
    /\ \A j \in 1..(Len(cl_points) - 1) :
          cl_points[j + 1].h - cl_points[j].h
             = MulDivRound(MulDivRound(cl_args.start_k,
                                       2 * cl_args.length - 2 * cl_points[j].s
                                          - cl_args.step_size,
                                       2 * cl_args.length),
                           cl_args.step_size, 100000)
    /\ ClothoidWholeSteps =>
          LET turn == cl_points[Len(cl_points)].h - cl_args.start_h
          IN  /\ Abs(turn - MulDivRound(cl_args.start_k, cl_args.length, 200000))
                    <= Len(cl_points)
              /\ (cl_args.start_k = k_circle /\ cl_args.length = 10 * SPIRAL_LENGTH)
                    => Abs(turn - delta_theta_spiral) <= Len(cl_points)

\* C12 witness: the clothoid of curvature 1 / 13 and length 15 in 30 whole
\* steps of 0.5 has returned, turned by delta_theta_spiral.
C12_Witness ==
    /\ ClothoidWholeSteps
    /\ cl_args.start_k = k_circle
    /\ cl_args.length = 10 * SPIRAL_LENGTH
    /\ Len(cl_points) = 31
    /\ cl_points[31].h - cl_args.start_h > delta_theta_spiral - 31

(***************************************************************************)
(* Claims about the gap filling of keshihua.py.                            *)
(***************************************************************************)
\* The point where the drive over the road cfg begins (at_end = FALSE) or
\* ends (at_end = TRUE): a reversed road is driven from the end of its last
\* geometry to the origin of its first.
drive_point(cfg, at_end) ==
    LET geoms == roads_db[cfg.id]
    IN  IF cfg.rev = at_end
        THEN [x |-> geoms[1].x, y |-> geoms[1].y]
        ELSE LET e == geometry_end(geoms[Len(geoms)]) IN [x |-> e.x, y |-> e.y]

\* The distance from the end of road b of the route to the start of road b + 1
end_to_start(route, b) ==
    Hypot(drive_point(route[b], TRUE).x - drive_point(route[b + 1], FALSE).x,
          drive_point(route[b], TRUE).y - drive_point(route[b + 1], FALSE).y)

\* The pose of the last sample of road cfg
last_road_sample(cfg) == road_pose(cfg.id, cfg.rev, road_steps(cfg.id) - 1)

pose_of(p) == [x |-> p.x, y |-> p.y, h |-> p.h]

\* The first sample of road k_i, which is not the first road, has just been
\* appended.
NextRoadBegun ==
    /\ k_pc = "road"
    /\ k_i >= 2
    /\ k_step = 1
    /\ pose_of(vut_points[Len(vut_points)])
          = road_pose(road_configs[k_i].id, road_configs[k_i].rev, 0)

\* C13: between two consecutive roads whose end-to-start distance is at most
\* 0.1 no sample is inserted: the first sample of the next road directly
\* follows the last sample of the road before it.
C13_NoBridgeAcrossSmallGap ==
    (/\ k_pc = "road" /\ k_i >= 2 /\ k_step = 1
     /\ end_to_start(road_configs, k_i - 1) <= GAP_THRESHOLD)
       => /\ NextRoadBegun
          /\ pose_of(vut_points[Len(vut_points) - 1])
                = last_road_sample(road_configs[k_i - 1])

\* C13 witness: road 197 is followed by road 197 reversed, which starts
\* where road 197 ends, and the first sample of the second road is there.
C13_Witness ==
    /\ NextRoadBegun
    /\ end_to_start(road_configs, k_i - 1) = 0
    /\ pose_of(vut_points[Len(vut_points) - 1])
          = last_road_sample(road_configs[k_i - 1])

\* C14: between two consecutive roads whose end-to-start distance is more
\* than 0.1 at least one sample lies between the last sample of the road and
\* the first sample of the next road.
C14_BridgeAcrossLargeGap ==
    (/\ NextRoadBegun
     /\ end_to_start(road_configs, k_i - 1) > GAP_THRESHOLD)
       => pose_of(vut_points[Len(vut_points) - 1])
             # last_road_sample(road_configs[k_i - 1])

(***************************************************************************)
(* Claims about the primitive boundaries of plan_trajectory.               *)
(***************************************************************************)
\* The number of samples that the loop of segment seg has appended
segment_samples(seg) ==
    Cardinality({ j \in DOMAIN plan_points : plan_points[j].seg = seg })

\* Lines 198-199: the duration of the snap quintic, snap_dist / SPEED_MS
snap_duration == RoundDiv(snap_dist * 1000, SPEED_MS)

\* C15: the poses are chained at every boundary of plan_trajectory.  The
\* entry quintic is sampled up to its end time best_T, where it is at the
\* circle state of the entry angle; the circle, the clothoid and the snap
\* quintic start from the last sample before them, so their first sample is
\* one time step after it; the last snap sample is at the end time of the
\* snap quintic, where the quintic is at the point (ex, ey) from which the
\* final straight starts.
C15_PoseContinuity ==
    plan_pc = "returned" =>
      /\ (segment_samples("entry") - 1) * DT = best_T
      /\ \A j \in 1..(Len(plan_points) - 1) :
            plan_points[j].seg # plan_points[j + 1].seg
               => plan_points[j + 1].t - plan_points[j].t = DT
      /\ segment_samples("snap") * DT = snap_duration

(***************************************************************************)
(* The samplers of the road and clothoid geometry, each run on its own.    *)
(***************************************************************************)
InitSampling ==
    /\ KeshihuaAt("wait")
    /\ TrackAt("wait")
    /\ IdleClothoid
    /\ IdleXosc
    /\ IdleWriter
    /\ IdlePlan
    /\ IdleVT1
    /\ IdleArc
    /\ IdleQuintic
    /\ IdleVUT
    /\ IdleCall

\* None of the three samplers has been started.
NoSamplerStarted == k_pc = "wait" /\ track_pc = "wait" /\ cl_pc = "idle"

SamplingKeshihua ==
    /\ NoSamplerStarted
    /\ \E r \in RouteSet : KeshihuaStart(r)
    /\ UNCHANGED notKeshihua

SamplingTrack ==
    /\ NoSamplerStarted
    /\ \E seq \in TrackSequenceSet \cup {ZeroLengthSequence},
          speed \in TrackSpeedSet, dt \in TrackDtSet :
          TrackCall(seq, speed, dt)
    /\ UNCHANGED notTrack

\* calc_unwinding_clothoid is called (line 71).
SamplingClothoid ==
    /\ NoSamplerStarted
    /\ cl_args' \in ClothoidArgSet
    /\ cl_pc' = "new"
    /\ UNCHANGED <<notClothoid, cl_i, cl_points, cl_curr, cl_k, cl_err>>

NextSampling ==
    \/ SamplingKeshihua
    \/ KRoadStep
    \/ KRoadDone
    \/ KGapStep
    \/ KGapDone
    \/ SamplingTrack
    \/ TrackRaise
    \/ TrackStep
    \/ TrackNextSegment
    \/ TrackReturn
    \/ SamplingClothoid
    \/ ClothoidEnter
    \/ ClothoidStep
    \/ ClothoidReturn

SpecSampling == InitSampling /\ [][NextSampling]_vars

(***************************************************************************)
(* Claims about the offsets and the headings of the samplers.              *)
(***************************************************************************)
\* The offset s lies on a primitive of the given length.
OnPrimitive(s, length) == 0 <= s /\ s <= length

\* C16: every offset at which a sampler evaluates a primitive lies in
\* [0, length] of that primitive: the offset of every sample of the road
\* loop of keshihua.py within the geometry looked up for it, the distance ds
\* of every sample of generate_continuous_path within its segment, and the s
\* of every clothoid point and the s_mid of every clothoid step within the
\* clothoid.
C16_OffsetsWithinPrimitive ==
    /\ k_pc = "road" =>
          \A j \in 0..(k_step - 1) :
             LET f == road_lookup(road_configs[k_i].id, road_configs[k_i].rev, j)
             IN  OnPrimitive(f.s, f.g.length)
    /\ (track_pc = "run" /\ track_road <= Len(road_id_sequence)) =>
          \A i \in 0..(track_i - 1) :
             OnPrimitive(track_ds(track_speed_mps, track_dt, i), track_segment.length)
    /\ \A j \in 1..Len(cl_points) :
          /\ OnPrimitive(cl_points[j].s, cl_args.length)
          /\ j < Len(cl_points) =>
                OnPrimitive(2 * cl_points[j].s + cl_args.step_size, 2 * cl_args.length)

\* C16 witness: the first sample of a reversed road has been taken at the
\* very end of the road's last geometry, offset = length.
C16_Witness ==
    /\ k_pc = "road"
    /\ k_step >= 1
    /\ road_configs[k_i].rev
    /\ LET f == road_lookup(road_configs[k_i].id, TRUE, 0)
       IN  f.s = f.g.length /\ f.s > 0

(***************************************************************************)
(* data/RoundaboutScenario.py: calculate_trajectory                        *)
(***************************************************************************)
\* Lines 9-15
radius == 20000
v_target_kmh == 30
ttc == 3700
collision_angle_deg == 270
sim_duration == ttc + 3000
sample_rate == 100

\* Lines 18-19, 22, 29: angular_velocity * t
angular_travel(kmh, r, t) == RoundDiv(speed_of_kmh(kmh) * t, r \div 1000)

angle_travelled(t) == angular_travel(v_target_kmh, radius, t)

\* The start angle put ahead of the collision angle instead of behind it
start_rad_ahead(cfg) ==
    RoundDiv(cfg.collision_angle_deg * PI, 180)
      + angular_travel(cfg.v_target_kmh, cfg.radius, cfg.ttc)

\* Lines 22-23: start_rad of a generator with the attributes cfg
start_rad_of(cfg) ==
    RoundDiv(cfg.collision_angle_deg * PI, 180)
      - angular_travel(cfg.v_target_kmh, cfg.radius, cfg.ttc)

\* The attributes of lines 9-15
shipped_roundabout ==
    [radius |-> radius, v_target_kmh |-> v_target_kmh, ttc |-> ttc,
     collision_angle_deg |-> collision_angle_deg]

\* Line 23
start_rad == start_rad_of(shipped_roundabout)

\* Line 26: np.arange(0, sim_duration, sample_rate)
roundabout_times == { i * sample_rate : i \in 0..(CeilDiv(sim_duration, sample_rate) - 1) }

\* Lines 29, 33
heading_rad(t) == start_rad + angle_travelled(t) + HALF_PI

\* A heading in (-pi, pi]
Normalized(h) == -PI < h /\ h <= PI

\* C17: every heading that the generators emit lies in (-pi, pi]: the
\* result of normalize_angle for every input, pi and -pi among them, the
\* headings of the clothoid points, the headings of the samples of
\* keshihua.py, reversed roads included, and the headings of the roundabout
\* samples.
C17_HeadingsNormalized ==
    /\ \A a \in {-TWO_PI, -PI, -HALF_PI, 0, HALF_PI, PI, TWO_PI, PI + 1, -PI - 1} :
          Normalized(normalize_angle(a))
    /\ \A j \in DOMAIN cl_points : Normalized(cl_points[j].h)
    /\ \A j \in DOMAIN vut_points : Normalized(vut_points[j].h)
    /\ \A t \in roundabout_times : Normalized(heading_rad(t))

\* generate_continuous_path has been called.
TrackCalled == track_pc \in {"run", "returned", "raised"}

\* C18: generate_continuous_path called with an empty road id sequence
\* raises nothing and returns an empty trajectory.
C18_EmptySequenceEmptyTrajectory ==
    (TrackCalled /\ road_id_sequence = <<>>)
       => /\ track_pc # "raised"
          /\ track_err = "none"
          /\ traj_points = <<>>

\* C18 witness: the call with an empty sequence, and a time step of 0 at
\* that, has returned the empty list.
C18_Witness ==
    /\ track_pc = "returned"
    /\ road_id_sequence = <<>>
    /\ track_dt = 0
    /\ traj_points = <<>>
    /\ track_err = "none"

\* The road id sequence goes through a geometry of length 0.
HasZeroLengthSegment ==
    \E r \in 1..Len(road_id_sequence) :
       \E g \in 1..Len(track_roads_db[road_id_sequence[r]]) :
          track_roads_db[road_id_sequence[r]][g].length = 0

\* C19: a segment of length 0 ends the run with a ValidationError and no
\* trajectory is returned: calc_unwinding_clothoid called with length 0, and
\* generate_continuous_path on a sequence through a geometry of length 0,
\* never return and raise nothing but a ValidationError.
C19_ZeroLengthValidationError ==
    /\ (cl_pc \in {"loop", "raised", "returned"} /\ cl_args.length = 0)
          => /\ cl_pc # "returned"
             /\ cl_pc = "raised" => cl_err = "ValidationError"
    /\ (TrackCalled /\ HasZeroLengthSegment)
          => /\ track_pc # "returned"
             /\ track_pc = "raised" => track_err = "ValidationError"

(***************************************************************************)
(* xosctojson.py: parse_xosc_to_json                                       *)
(***************************************************************************)
\* <Vertex> elements with their time attribute: with a WorldPosition (ok)
\* or without one (lines 69-79).
TimedVertexSet ==
    { [ok |-> TRUE,  time |-> 0,   x |-> -332000, y |-> 118000],
      [ok |-> TRUE,  time |-> 100, x |-> -332300, y |-> 117600],
      [ok |-> FALSE, time |-> 200, x |-> 0,       y |-> 0] }

\* What the document holds under the name <entity>_Trajectory: no element,
\* an element without children, or an element with its Vertex descendants.
TrajectoryNodeSet ==
    { NoNode, [kind |-> "leaf", vertices |-> <<>>] }
    \cup { [kind |-> "tree", vertices |-> vs] :
             vs \in UNION { [1..n -> TimedVertexSet] : n \in 0..MaxRaw } }

\* The documents: unparsable or missing, or parsed.
XoscDocumentSet ==
    { [parses |-> FALSE, VT1 |-> NoNode, Target |-> NoNode] }
    \cup { [parses |-> TRUE, VT1 |-> a, Target |-> b] :
             a \in TrajectoryNodeSet, b \in TrajectoryNodeSet }

\* Line 55: "not target_traj_node" holds for None and for an element
\* without children.
node_missing(node) == node.kind # "tree"

RECURSIVE json_points(_, _, _)
\* Lines 66-112: the points of the vertices, prev the last vertex that had
\* a WorldPosition (or none, ok = FALSE)
json_points(vertices, j, prev) ==
    IF j > Len(vertices) THEN <<>>
    ELSE IF ~vertices[j].ok THEN json_points(vertices, j + 1, prev)
    ELSE LET v    == vertices[j]
             dist == Hypot(v.x - prev.x, v.y - prev.y)
             dt   == v.time - prev.time
             vel  == IF prev.ok /\ dt > 0 THEN Round2(RoundDiv(dist * 1000, dt)) ELSE 0
         IN  << [time |-> v.time, x |-> v.x, y |-> v.y, velocity |-> vel] >>
                \o json_points(vertices, j + 1, v)

\* Lines 44-121: process_trajectory(entity_name, vehicle_id) on a node that
\* is not missing
process_trajectory(node, vehicle_id) ==
    LET pts == json_points(node.vertices, 1, [ok |-> FALSE, time |-> 0, x |-> 0, y |-> 0])
    IN  [veh_id   |-> vehicle_id,
         veh_vel  |-> IF pts = <<>> THEN 0
                      ELSE IntDiv(pts[(Len(pts) \div 2) + 1].velocity * 36,
                                  10000),
         trajectory_content |-> pts]

\* Lines 133-135: the target stands still
stand_still(veh_obj) ==
    [veh_obj EXCEPT !.veh_vel = 0,
                    !.trajectory_content =
                        [i \in DOMAIN veh_obj.trajectory_content |->
                            [veh_obj.trajectory_content[i] EXCEPT !.velocity = 0]]]

\* The script is started on a document.
InitXoscRun ==
    /\ xj_doc \in XoscDocumentSet
    /\ xj_pc = "parse"
    /\ veh_content = <<>>
    /\ json_file = NoFile
    /\ xj_err = "none"
    /\ xj_clock = 0
    /\ creat_time = 0
    /\ update_time = 0
    /\ xj_first = NoFile

InitXosc ==
    /\ InitXoscRun
    /\ IdleVT1
    /\ IdleArc
    /\ IdleQuintic
    /\ IdleVUT
    /\ IdlePlan
    /\ IdleRoads
    /\ IdleClothoid
    /\ IdleWriter
    /\ IdleCall

\* The readings of the wall clock in milliseconds that a run may get
ClockSet == {1000, 1001}

\* Lines 7-8, 149-154: ET.parse; its exception is caught and printed by the
\* script.  Lines 11-34: json_data, whose creat_time and update_time are two
\* readings of the wall clock, neither before the last reading.
XoscParse ==
    /\ xj_pc = "parse"
    /\ IF xj_doc.parses
       THEN /\ xj_pc' = "vt1"
            /\ \E t1 \in ClockSet, t2 \in ClockSet :
                  /\ xj_clock <= t1
                  /\ t1 <= t2
                  /\ creat_time' = t1
                  /\ update_time' = t2
                  /\ xj_clock' = t2
            /\ UNCHANGED xj_err
       ELSE /\ xj_pc' = "failed"
            /\ xj_err' = "FileNotFoundError"
            /\ UNCHANGED <<xj_clock, creat_time, update_time>>
    /\ UNCHANGED <<notXosc, xj_doc, veh_content, json_file, xj_first>>

\* Lines 124-126: the VT1 trajectory; None for a missing node (lines 55-57)
XoscVT1 ==
    /\ xj_pc = "vt1"
    /\ veh_content' = IF node_missing(xj_doc.VT1) THEN veh_content
                      ELSE Append(veh_content, process_trajectory(xj_doc.VT1, "obu-0005"))
    /\ xj_pc' = "target"
    /\ UNCHANGED <<notXosc, xj_doc, json_file, xj_err, xj_clock, creat_time, update_time,
                   xj_first>>

\* Lines 130-136: the Target trajectory
XoscTarget ==
    /\ xj_pc = "target"
    /\ veh_content' =
          IF node_missing(xj_doc.Target) THEN veh_content
          ELSE Append(veh_content,
                      stand_still(process_trajectory(xj_doc.Target, "obu-0006")))
    /\ xj_pc' = "write"
    /\ UNCHANGED <<notXosc, xj_doc, json_file, xj_err, xj_clock, creat_time, update_time,
                   xj_first>>

\* Lines 139-144: veh_num is set and the file is written.
XoscWrite ==
    /\ xj_pc = "write"
    /\ json_file' = [written |-> TRUE, creat_time |-> creat_time,
                     update_time |-> update_time, veh_num |-> Len(veh_content),
                     veh_content |-> veh_content]
    /\ xj_pc' = "done"
    /\ UNCHANGED <<notXosc, xj_doc, veh_content, xj_err, xj_clock, creat_time, update_time,
                   xj_first>>

\* The script is run a second time on the same document; the file of the
\* first run is kept aside for comparison.
XoscRunAgain ==
    /\ xj_pc = "done"
    /\ ~xj_first.written
    /\ xj_first' = json_file
    /\ xj_pc' = "parse"
    /\ veh_content' = <<>>
    /\ UNCHANGED <<notXosc, xj_doc, json_file, xj_err, xj_clock, creat_time, update_time>>

NextXosc ==
    \/ XoscParse
    \/ XoscVT1
    \/ XoscTarget
    \/ XoscWrite
    \/ XoscRunAgain

(***************************************************************************)
(* The two converters of an .xosc document, each run on its own.           *)
(***************************************************************************)
InitConverters == (InitVT1 /\ IdleXosc) \/ InitXosc

NextConverters == NextVT1 \/ NextXosc

SpecConverters == InitConverters /\ [][NextConverters]_vars

(***************************************************************************)
(* Claims about a document without the trajectory node.                    *)
(***************************************************************************)
\* C20: for a document that parses and lacks the trajectory node the run
\* ends with an InputNotFoundError and without an output file:
\* calculate_trajectory_points writes no VT1_trajectory_output.txt, and
\* xosctojson.py writes no JSON file when the VT1 or the Target node is
\* absent.
C20_AbsentNodeInputNotFound ==
    /\ (/\ vt1_pc \in {"returned", "raised", "done"}
        /\ xosc_file.parses
        /\ xosc_file.node = "absent")
          => /\ vt1_err = "InputNotFoundError"
             /\ output_file = <<>>
    /\ (/\ xj_pc \in {"done", "failed"}
        /\ xj_doc.parses
        /\ NoNode \in {xj_doc.VT1, xj_doc.Target})
          => /\ xj_err = "InputNotFoundError"
             /\ ~json_file.written

(***************************************************************************)
(* Claims about the determinism of parse_xosc_to_json.                     *)
(***************************************************************************)
\* C21: two runs of parse_xosc_to_json on the same document write the same
\* JSON output.
C21_SameDocumentSameJson ==
    (xj_pc = "done" /\ xj_first.written) => json_file = xj_first

(***************************************************************************)
(* The vertex writers: generate_VT1.py lines 223-227, track.py             *)
(* write_trajectory_file, WaypointGeneratorV3.py write_vertices            *)
(***************************************************************************)
RECURSIVE TenTo(_)
TenTo(n) == IF n = 0 THEN 1 ELSE 10 * TenTo(n - 1)

\* f"{v:.<places>f}" of a value v that counts units of 10^-decimals: the
\* number of decimal places printed and the digits printed, as an integer
fixed(v, decimals, places) ==
    [places |-> places,
     digits |-> IF places >= decimals THEN v * TenTo(places - decimals)
                ELSE RoundDiv(v, TenTo(decimals - places))]

\* The literal "0"
literal_zero == [places |-> 0, digits |-> 0]

\* An attribute name="value"
attribute(name, value) == [name |-> name, value |-> value]

\* The lines written per sample: the Position element on one line
\* (generate_VT1.py) or on three (track.py, WaypointGeneratorV3.py)
VertexLinesCompact ==
    << "<Vertex time>", "<Position><WorldPosition/></Position>", "</Vertex>" >>

VertexLinesSpread ==
    << "<Vertex time>", "<Position>", "<WorldPosition/>", "</Position>", "</Vertex>" >>

\* generate_VT1.py lines 225-227; t in ms, x and y in mm, h in microradian
vt1_vertex(p) ==
    [lines |-> VertexLinesCompact,
     time  |-> fixed(p.t, 3, 4),
     attributes |-> << attribute("x", fixed(p.x, 3, 4)), attribute("y", fixed(p.y, 3, 4)),
                       attribute("z", literal_zero), attribute("h", fixed(p.h, 6, 4)) >>]

\* track.py lines 112-118
track_vertex(p) ==
    [lines |-> VertexLinesSpread,
     time  |-> fixed(p.t, 3, 6),
     attributes |-> << attribute("x", fixed(p.x, 3, 6)), attribute("y", fixed(p.y, 3, 6)),
                       attribute("z", literal_zero), attribute("h", fixed(p.h, 6, 6)),
                       attribute("p", literal_zero), attribute("r", literal_zero) >>]

\* WaypointGeneratorV3.py lines 118-122; t in microseconds, heading_deg in
\* whole degrees
write_vertices(x, y, t, heading_deg) ==
    [lines |-> VertexLinesSpread,
     time  |-> fixed(t, 6, 6),
     attributes |-> << attribute("x", fixed(x, 3, 6)), attribute("y", fixed(y, 3, 6)),
                       attribute("z", literal_zero), attribute("h", fixed(heading_deg, 0, 6)),
                       attribute("p", literal_zero), attribute("r", literal_zero) >>]

\* The samples the writers are called on: times, positions and headings of
\* the trajectories; the headings 0 and 180 degrees of lines 127 and 132.
WriterSampleSet ==
    { [t |-> t, x |-> x, y |-> y, h |-> h] :
        t \in {0, 100, 19500}, x \in {-332000, -386572}, y \in {118000, 67418},
        h \in {-2356200, 0, 576923} }

WaypointSampleSet ==
    { [t |-> t, x |-> x, y |-> y, h |-> h] :
        t \in {0, 100, 19500}, x \in {-332000, -386572}, y \in {118000, 67418},
        h \in {0, 180} }

InitWriter ==
    /\ wr_pc = "call"
    /\ \/ wr_fn \in {"generate_VT1", "write_trajectory_file"} /\ wr_in \in WriterSampleSet
       \/ wr_fn = "write_vertices" /\ wr_in \in WaypointSampleSet
    /\ wr_out = NoVertex
    /\ IdleVT1
    /\ IdleArc
    /\ IdleQuintic
    /\ IdleVUT
    /\ IdlePlan
    /\ IdleRoads
    /\ IdleClothoid
    /\ IdleXosc
    /\ IdleCall

WriteVT1Vertex ==
    /\ wr_pc = "call"
    /\ wr_fn = "generate_VT1"
    /\ wr_out' = vt1_vertex(wr_in)
    /\ wr_pc' = "written"
    /\ UNCHANGED <<notWriter, wr_fn, wr_in>>

WriteTrackVertex ==
    /\ wr_pc = "call"
    /\ wr_fn = "write_trajectory_file"
    /\ wr_out' = track_vertex(wr_in)
    /\ wr_pc' = "written"
    /\ UNCHANGED <<notWriter, wr_fn, wr_in>>

WriteWaypointVertex ==
    /\ wr_pc = "call"
    /\ wr_fn = "write_vertices"
    /\ wr_out' = write_vertices(wr_in.x, wr_in.y, wr_in.t * 1000, wr_in.h)
    /\ wr_pc' = "written"
    /\ UNCHANGED <<notWriter, wr_fn, wr_in>>

NextWriter ==
    \/ WriteVT1Vertex
    \/ WriteTrackVertex
    \/ WriteWaypointVertex

SpecWriter == InitWriter /\ [][NextWriter]_vars

(***************************************************************************)
(* Claims about the vertex writers.                                        *)
(***************************************************************************)
\* C22: every writer writes, per sample, the three lines <Vertex time=T>,
\* <Position><WorldPosition x y z="0" h/></Position>, </Vertex>, with the
\* attributes x, y, z, h and no other, and time, x, y and h printed with 4
\* decimal places.
C22_VertexShape ==
    wr_pc = "written" =>
      /\ wr_out.lines = VertexLinesCompact
      /\ wr_out.time.places = 4
      /\ [i \in DOMAIN wr_out.attributes |-> wr_out.attributes[i].name]
            = <<"x", "y", "z", "h">>
      /\ \A i \in DOMAIN wr_out.attributes :
            IF wr_out.attributes[i].name = "z"
            THEN wr_out.attributes[i].value = literal_zero
            ELSE wr_out.attributes[i].value.places = 4

(***************************************************************************)
(* The circle loops of VUTstraight_round.generate_trajectory (lines        *)
(* 95-110) and generate_VT1.plan_trajectory (lines 152-161), run on their  *)
(* own for a start angle and a speed.                                      *)
(***************************************************************************)
\* The start angles of the circle: the shipped entry_angle_rad of
\* VUTstraight_round.py line 44, two angles at and just before the end
\* angle (an arc shorter than one step) and one behind it (almost a full
\* turn); for plan_trajectory the entry angles of the search.
ArcCallSet ==
    { [start |-> a, kmh |-> v] :
        a \in {entry_angle_rad, 4800000, 3 * HALF_PI + 100000, 4900000}, v \in VutSpeedSet }

PlanArcCallSet ==
    { [start |-> c[1], kmh |-> SPEED_KMH] : c \in SearchOutcomeSet }

\* arc_len of the call
call_arc_len ==
    IF call_fn = "generate_trajectory"
    THEN arc_length(end_ang_from(call_in.start) - call_in.start)
    ELSE arc_length(final_exit_circle_angle(call_in.start) - call_in.start)

\* circle_steps of the call
call_circle_steps == arc_step_count(call_arc_len, speed_of_kmh(call_in.kmh))

\* range(1, circle_steps + 1) with the indices counted from zero instead
arc_range_from_zero(steps) == [k \in 1..(steps + 1) |-> k - 1]

\* range(1, circle_steps + 1)
arc_range(steps) == [k \in 1..steps |-> k]

InitArcCount ==
    /\ \/ call_fn = "generate_trajectory" /\ call_in \in ArcCallSet
       \/ call_fn = "plan_trajectory" /\ call_in \in PlanArcCallSet
    /\ call_pc = "loop"
    /\ call_i = 1
    /\ call_out = <<>>
    /\ call_err = "none"
    /\ IdleVT1
    /\ IdleArc
    /\ IdleQuintic
    /\ IdleVUT
    /\ IdlePlan
    /\ IdleRoads
    /\ IdleClothoid
    /\ IdleXosc
    /\ IdleWriter

\* VUTstraight_round.py lines 105-110: one pass of the circle loop
ArcSampleVUT ==
    /\ call_fn = "generate_trajectory"
    /\ call_pc = "loop"
    /\ call_i \in DOMAIN arc_range(call_circle_steps)
    /\ LET i == arc_range(call_circle_steps)[call_i]
           span == end_ang_from(call_in.start) - call_in.start
       IN  IF call_circle_steps = 0
           THEN /\ call_pc' = "raised"
                /\ call_err' = "ZeroDivisionError"
                /\ UNCHANGED <<call_i, call_out>>
           ELSE /\ call_out' = Append(call_out,
                                      call_in.start + RoundDiv(i * span, call_circle_steps))
                /\ call_i' = call_i + 1
                /\ UNCHANGED <<call_pc, call_err>>
    /\ UNCHANGED <<notCall, call_fn, call_in>>

\* generate_VT1.py lines 156-160: one pass of the circle loop
ArcSamplePlan ==
    /\ call_fn = "plan_trajectory"
    /\ call_pc = "loop"
    /\ call_i \in DOMAIN arc_range(call_circle_steps)
    /\ LET i == arc_range(call_circle_steps)[call_i]
       IN  call_out' = Append(call_out,
                              call_in.start + MulDivRound(SPEED_MS * i * DT, 1000, RADIUS))
    /\ call_i' = call_i + 1
    /\ UNCHANGED <<notCall, call_fn, call_in, call_pc, call_err>>

\* The loop has run through its range.
ArcLoopEnd ==
    /\ call_fn \in {"generate_trajectory", "plan_trajectory"}
    /\ call_pc = "loop"
    /\ call_i \notin DOMAIN arc_range(call_circle_steps)
    /\ call_pc' = "returned"
    /\ UNCHANGED <<notCall, call_fn, call_in, call_i, call_out, call_err>>

NextArcCount ==
    \/ ArcSampleVUT
    \/ ArcSamplePlan
    \/ ArcLoopEnd

SpecArcCount == InitArcCount /\ [][NextArcCount]_vars

\* C23: the circle loop of generate_trajectory and of plan_trajectory adds
\* floor(L / (v * dt)) samples for an arc of length L, which is within one
\* of (L / v) / dt, and a loop of zero steps adds no sample and raises no
\* ZeroDivisionError.
C23_ArcSampleCount ==
    (call_fn \in {"generate_trajectory", "plan_trajectory"}
       /\ call_pc \in {"returned", "raised"}) =>
         LET n == Len(call_out)
             step == speed_of_kmh(call_in.kmh) * DT
         IN  /\ call_err = "none"
             /\ n * step <= call_arc_len * 1000
             /\ call_arc_len * 1000 < (n + 1) * step
             /\ (n - 1) * step <= call_arc_len * 1000

\* C23 witness: generate_trajectory has returned from an arc shorter than
\* one step with no sample, and the arc is not empty.
C23_Witness ==
    /\ call_fn = "generate_trajectory"
    /\ call_pc = "returned"
    /\ call_arc_len > 0
    /\ call_out = <<>>

(***************************************************************************)
(* keshihua.bezier_interp called on its own (lines 66-81).                 *)
(***************************************************************************)
\* The boundary poses: the start and the end of the shipped roads, in both
\* directions.
BezierPoseSet ==
    UNION { { get_road_end_state(road_configs_shipped[k].id, rev),
              get_road_start_state(road_configs_shipped[k].id, rev) } :
            k \in DOMAIN road_configs_shipped, rev \in BOOLEAN }

\* t = i / n
BezierParameterSet == { <<0, 1>>, <<1, 4>>, <<1, 2>>, <<3, 4>>, <<1, 1>> }

InitBezier ==
    /\ call_fn = "bezier_interp"
    /\ \E p0 \in BezierPoseSet, p3 \in BezierPoseSet, t \in BezierParameterSet :
          call_in = [p0 |-> p0, p3 |-> p3, i |-> t[1], n |-> t[2]]
    /\ call_pc = "call"
    /\ call_i = 0
    /\ call_out = <<>>
    /\ call_err = "none"
    /\ IdleVT1
    /\ IdleArc
    /\ IdleQuintic
    /\ IdleVUT
    /\ IdlePlan
    /\ IdleRoads
    /\ IdleClothoid
    /\ IdleXosc
    /\ IdleWriter

\* Lines 66-81
BezierInterp ==
    /\ call_fn = "bezier_interp"
    /\ call_pc = "call"
    /\ call_out' = [point |-> bezier_interp(call_in.p0, call_in.p3, call_in.i, call_in.n),
                    ctrl  |-> bezier_controls(call_in.p0, call_in.p3)]
    /\ call_pc' = "returned"
    /\ UNCHANGED <<notCall, call_fn, call_in, call_i, call_err>>

NextBezier == BezierInterp

SpecBezier == InitBezier /\ [][NextBezier]_vars

\* The point c lies at the distance d from the pose p along p's heading,
\* forward (sign 1) or backward (sign -1), within the resolution of the
\* sine and cosine.
AlongHeading(p, c, d, sign) ==
    LET dx == sign * (c.x - p.x)
        dy == sign * (c.y - p.y)
        slack == 2 + d \div 5000
    IN  /\ Abs(Scale(dx, Cos(p.h)) + Scale(dy, Sin(p.h)) - d) <= slack
        /\ Abs(Scale(dx, Sin(p.h)) - Scale(dy, Cos(p.h))) <= slack

\* C24: bezier_interp(p0, p3, 0) is the position of p0 and
\* bezier_interp(p0, p3, 1) that of p3, and the control points lie one third
\* of the distance from p0 to p3 ahead of p0 along its heading and behind p3
\* along its heading.
C24_BezierBoundaryPoses ==
    (call_fn = "bezier_interp" /\ call_pc = "returned") =>
      LET p0 == call_in.p0
          p3 == call_in.p3
          third == Hypot(p3.x - p0.x, p3.y - p0.y) \div 3
      IN  /\ call_in.i = 0 =>
                call_out.point.x = p0.x /\ call_out.point.y = p0.y
          /\ call_in.i = call_in.n =>
                call_out.point.x = p3.x /\ call_out.point.y = p3.y
          /\ AlongHeading(p0, call_out.ctrl[1], third, 1)
          /\ AlongHeading(p3, call_out.ctrl[2], third, -1)

\* C24 witness: the curve across the gap between road 96 driven in reverse
\* and road 197 of the shipped route, evaluated at t = 1.
C24_Witness ==
    /\ call_fn = "bezier_interp"
    /\ call_pc = "returned"
    /\ call_in.p0 = get_road_end_state("96", TRUE)
    /\ call_in.p3 = get_road_start_state("197", FALSE)
    /\ call_in.i = call_in.n
    /\ call_out.point.x = call_in.p3.x
    /\ call_out.point.x # call_in.p0.x

(***************************************************************************)
(* The entry search of generate_VT1.plan_trajectory (lines 104-124) on its *)
(* own.  The path lengths and the costs of the quintics are not evaluated: *)
(* every candidate either fails the filter of line 118 or has one of a few *)
(* costs.                                                                  *)
(***************************************************************************)
\* The number of search angles and the largest cost of a candidate
MaxSearchAngles == 2
MaxCost == 2

\* float('inf') of line 104
infinite_cost == MaxCost + 1

\* The first search times of line 106
SearchTimesUsed == <<2500, 3000>>

\* The (angle, duration) pairs in the order of the loops of lines 108, 112
search_order ==
    [k \in 1..(MaxSearchAngles * Len(SearchTimesUsed)) |->
        [ang |-> ((k - 1) \div Len(SearchTimesUsed)) * 100000,
         T   |-> SearchTimesUsed[((k - 1) % Len(SearchTimesUsed)) + 1]]]

\* What lines 113-122 compute for a candidate: whether it passes the filter
\* of line 118, and its cost
CandidateValueSet ==
    {[pass |-> FALSE, cost |-> 0]} \cup { [pass |-> TRUE, cost |-> c] : c \in 0..MaxCost }

\* cost <= best_cost
improves_or_ties(cost, best) == cost <= best

\* Line 123: cost < best_cost
improves(cost, best) == cost < best

InitSearch ==
    /\ call_fn = "entry_search"
    /\ call_in \in [DOMAIN search_order -> CandidateValueSet]
    /\ call_pc = "loop"
    /\ call_i = 1
    /\ call_out = [best_cost |-> infinite_cost, best_poly |-> 0, best_T |-> 0,
                   best_entry_angle |-> 0]
    /\ call_err = "none"
    /\ IdleVT1
    /\ IdleArc
    /\ IdleQuintic
    /\ IdleVUT
    /\ IdlePlan
    /\ IdleRoads
    /\ IdleClothoid
    /\ IdleXosc
    /\ IdleWriter

\* Lines 112-124: one pass of the inner loop; best_poly is the number of the
\* candidate whose polynomials best_poly_x, best_poly_y are, 0 for None
SearchCandidate ==
    /\ call_fn = "entry_search"
    /\ call_pc = "loop"
    /\ call_i \in DOMAIN search_order
    /\ IF call_in[call_i].pass /\ improves(call_in[call_i].cost, call_out.best_cost)
       THEN call_out' = [best_cost |-> call_in[call_i].cost,
                         best_poly |-> call_i,
                         best_T |-> search_order[call_i].T,
                         best_entry_angle |-> search_order[call_i].ang]
       ELSE UNCHANGED call_out
    /\ call_i' = call_i + 1
    /\ UNCHANGED <<notCall, call_fn, call_in, call_pc, call_err>>

\* The loops of lines 108, 112 have run through all candidates.
SearchEnd ==
    /\ call_fn = "entry_search"
    /\ call_pc = "loop"
    /\ call_i \notin DOMAIN search_order
    /\ call_pc' = "returned"
    /\ UNCHANGED <<notCall, call_fn, call_in, call_i, call_out, call_err>>

NextSearch ==
    \/ SearchCandidate
    \/ SearchEnd

SpecSearch == InitSearch /\ [][NextSearch]_vars

\* The candidates that pass the filter of line 118
Passing == { k \in DOMAIN search_order : call_in[k].pass }

\* C25: after the entry search the selected polynomials are those of a
\* candidate that passes the filter and has the least cost of all that pass,
\* the first such candidate in the order angles outer, durations inner, and
\* best_T and best_entry_angle are that candidate's.
C25_FirstMinimalCostCandidate ==
    (call_fn = "entry_search" /\ call_pc = "returned" /\ Passing # {}) =>
      LET b == call_out.best_poly
      IN  /\ b \in Passing
          /\ \A k \in Passing : call_in[b].cost <= call_in[k].cost
          /\ \A k \in Passing : call_in[k].cost = call_in[b].cost => b <= k
          /\ call_out.best_T = search_order[b].T
          /\ call_out.best_entry_angle = search_order[b].ang

\* C25 witness: two candidates of different angles pass with the same,
\* least cost, a dearer one comes before them, and the search has returned
\* the first of the two.
C25_Witness ==
    /\ call_fn = "entry_search"
    /\ call_pc = "returned"
    /\ call_in[1] = [pass |-> TRUE, cost |-> 2]
    /\ call_in[2] = [pass |-> TRUE, cost |-> 1]
    /\ call_in[3] = [pass |-> TRUE, cost |-> 1]
    /\ call_out.best_poly = 2
    /\ call_out.best_entry_angle = 0
    /\ call_out.best_T = 3000

(***************************************************************************)
(* WaypointGeneratorV3.py: CollisionScenario.  Times in microseconds,      *)
(* speeds in mm/s, accelerations in mm/s^2, positions in mm.               *)
(***************************************************************************)
a_vehicle == 3470
a_pedestrian == 2000
post_collision_distance == 2500

\* Seconds in microseconds
SECOND == 1000000

\* The inputs of the entry fields (lines 295-297): TTC below, inside and
\* above [3.5, 4.5]; speeds that are negative, zero, valid and too large.
CollisionInputSet ==
    { [ttc |-> t, v1 |-> v1, v2 |-> v2] :
        t  \in {3400000, 3500000, 4000000, 4500000, 4600000},
        v1 \in {-1000, 0, 5000, 10000, 13890},
        v2 \in {-1000, 0, 1000, 1100, 1500, 5100} }

\* The checks of lines 18-23 without the distance check of lines 24-26
validate_inputs_without_distance(in) ==
    IF ~(3500000 <= in.ttc /\ in.ttc <= 4500000) THEN "ValueError"
    ELSE IF in.v2 > 5000 THEN "ValueError"
    ELSE IF in.v1 <= 0 \/ in.v2 <= 0 THEN "ValueError"
    ELSE "none"

\* Lines 17-26: the ValueError validate_inputs raises, or "none"
validate_inputs(in) ==
    IF ~(3500000 <= in.ttc /\ in.ttc <= 4500000) THEN "ValueError"
    ELSE IF in.v2 > 5000 THEN "ValueError"
    ELSE IF in.v1 <= 0 \/ in.v2 <= 0 THEN "ValueError"
    ELSE IF LET d_ac == MulDivPair(in.v2, in.ttc, SECOND)
            IN  d_ac[1] > 5250 \/ (d_ac[1] = 5250 /\ d_ac[2] > 0)
         THEN "ValueError"
    ELSE "none"

\* v * t: a distance for a speed and a duration
travelled(v, t) == MulDivRound(v, t, SECOND)

\* 0.5 * a * t**2
half_a_t2(a, t) == MulDivRound(MulDivRound(t, t, SECOND), a, 2 * SECOND)

\* v / a: the duration of the acceleration from rest
t_acc(v, a) == MulDivRound(v, SECOND, a)

\* The positions of an object before calculate_positions has returned
NoPositions == [start |-> <<0, 0>>, trigger |-> <<0, 0>>, collision |-> <<0, 0>>]

\* Lines 31-54
calculate_positions(in) ==
    LET d_bc == travelled(in.v1, in.ttc)
        bx   == 0 - d_bc
        d_fb == half_a_t2(a_vehicle, t_acc(in.v1, a_vehicle))
        d_ac == travelled(in.v2, in.ttc)
        d_ea == half_a_t2(a_pedestrian, t_acc(in.v2, a_pedestrian))
    IN  [vehicle    |-> [start |-> <<bx - d_fb, 0>>, trigger |-> <<bx, 0>>,
                         collision |-> <<0, 0>>],
         pedestrian |-> [start |-> <<0, d_ac + d_ea>>, trigger |-> <<0, d_ac>>,
                         collision |-> <<0, 0>>]]

\* np.linspace(0, total, num_points)
linspace(total, num_points) ==
    [k \in 1..num_points |->
        IF num_points = 1 THEN 0 ELSE MulDivRound(total, k - 1, num_points - 1)]

\* Line 70: the vehicle while it accelerates
vehicle_x_accelerating(in, pos, t) == pos.vehicle.start[1] + half_a_t2(a_vehicle, t)

\* The constant speed phase begun at the start point F instead of B
vehicle_x_cruising_from_start(in, pos, t) ==
    pos.vehicle.start[1] + travelled(in.v1, t - t_acc(in.v1, a_vehicle))

\* Lines 72-73: the vehicle at constant speed
vehicle_x_cruising(in, pos, t) ==
    LET d_fb == MulDivRound(in.v1, in.v1, 2 * a_vehicle)
        x_accel_end == pos.vehicle.start[1] + d_fb
    IN  x_accel_end + travelled(in.v1, t - t_acc(in.v1, a_vehicle))

\* Lines 69-73
vehicle_x(in, pos, t) ==
    IF t <= t_acc(in.v1, a_vehicle) THEN vehicle_x_accelerating(in, pos, t)
    ELSE vehicle_x_cruising(in, pos, t)

\* Line 92: the pedestrian while it accelerates
pedestrian_y_accelerating(in, pos, t) == pos.pedestrian.start[2] - half_a_t2(a_pedestrian, t)

\* Line 95: the pedestrian at constant speed from A to C
pedestrian_y_cruising(in, pos, t) ==
    travelled(in.v2, in.ttc) - travelled(in.v2, t - t_acc(in.v2, a_pedestrian))

\* Lines 98-100: the pedestrian after the collision
pedestrian_y_after(in, pos, t) ==
    LET y == 0 - travelled(in.v2, t - t_acc(in.v2, a_pedestrian) - in.ttc)
    IN  IF y < 0 - post_collision_distance THEN 0 - post_collision_distance ELSE y

\* Lines 90-100
pedestrian_y(in, pos, t) ==
    IF t <= t_acc(in.v2, a_pedestrian) THEN pedestrian_y_accelerating(in, pos, t)
    ELSE IF t <= t_acc(in.v2, a_pedestrian) + in.ttc THEN pedestrian_y_cruising(in, pos, t)
    ELSE pedestrian_y_after(in, pos, t)

\* Line 82
t_post(in) == MulDivRound(post_collision_distance, SECOND, in.v2)

\* The trajectories before generate_trajectory_points has returned
NoTrajectories ==
    [vehicle_x |-> <<>>, vehicle_time |-> <<>>, pedestrian_y |-> <<>>,
     pedestrian_time |-> <<>>]

\* Lines 58-109; vehicle_y and pedestrian_x are 0.0 throughout
generate_trajectory_points(in, num_points) ==
    LET pos == calculate_positions(in)
        t_vals_v == linspace(t_acc(in.v1, a_vehicle) + in.ttc, num_points)
        t_vals_p == linspace(t_acc(in.v2, a_pedestrian) + in.ttc + t_post(in), num_points)
    IN  [vehicle_x       |-> [k \in 1..num_points |-> vehicle_x(in, pos, t_vals_v[k])],
         vehicle_time    |-> t_vals_v,
         pedestrian_y    |-> [k \in 1..num_points |-> pedestrian_y(in, pos, t_vals_p[k])],
         pedestrian_time |-> t_vals_p]

\* A file that has not been opened
NoOutputFile == [opened |-> FALSE, vertices |-> <<>>]

\* Nothing returned, nothing written
NoCollisionOutput ==
    [pos |-> [vehicle |-> NoPositions, pedestrian |-> NoPositions],
     traj |-> NoTrajectories,
     vehicle_file |-> NoOutputFile,
     pedestrian_file |-> NoOutputFile]

CollisionMethodSet ==
    {"calculate_positions", "generate_trajectory_points", "save_trajectories_to_txt"}

\* num_points of the call: the default of line 56, 20 from line 346
num_points_of(fn) == IF fn = "save_trajectories_to_txt" THEN 20 ELSE 200

InitCollision ==
    /\ call_fn \in CollisionMethodSet
    /\ call_in \in CollisionInputSet
    /\ call_pc = "call"
    /\ call_i = 0
    /\ call_out = NoCollisionOutput
    /\ call_err = "none"
    /\ IdleVT1
    /\ IdleArc
    /\ IdleQuintic
    /\ IdleVUT
    /\ IdlePlan
    /\ IdleRoads
    /\ IdleClothoid
    /\ IdleXosc
    /\ IdleWriter

\* Lines 29, 57, 112: self.validate_inputs() at the head of the method
CollisionValidate ==
    /\ call_fn \in CollisionMethodSet
    /\ call_pc = "call"
    /\ call_err' = validate_inputs(call_in)
    /\ call_pc' = IF validate_inputs(call_in) = "none" THEN "validated" ELSE "raised"
    /\ UNCHANGED <<notCall, call_fn, call_in, call_i, call_out>>

\* Lines 31-54
CalculatePositions ==
    /\ call_fn = "calculate_positions"
    /\ call_pc = "validated"
    /\ call_out' = [call_out EXCEPT !.pos = calculate_positions(call_in)]
    /\ call_pc' = "returned"
    /\ UNCHANGED <<notCall, call_fn, call_in, call_i, call_err>>

\* Lines 58-109
GenerateTrajectoryPoints ==
    /\ call_fn = "generate_trajectory_points"
    /\ call_pc = "validated"
    /\ call_out' = [call_out EXCEPT
                       !.traj = generate_trajectory_points(call_in, num_points_of(call_fn))]
    /\ call_pc' = "returned"
    /\ UNCHANGED <<notCall, call_fn, call_in, call_i, call_err>>

\* Lines 113-132
SaveTrajectoriesToTxt ==
    /\ call_fn = "save_trajectories_to_txt"
    /\ call_pc = "validated"
    /\ LET data == generate_trajectory_points(call_in, num_points_of(call_fn))
       IN  call_out' = [call_out EXCEPT
             !.vehicle_file = [opened |-> TRUE,
                vertices |-> [k \in DOMAIN data.vehicle_x |->
                   write_vertices(data.vehicle_x[k], 0, data.vehicle_time[k], 0)]],
             !.pedestrian_file = [opened |-> TRUE,
                vertices |-> [k \in DOMAIN data.pedestrian_y |->
                   write_vertices(0, data.pedestrian_y[k], data.pedestrian_time[k], 180)]]]
    /\ call_pc' = "returned"
    /\ UNCHANGED <<notCall, call_fn, call_in, call_i, call_err>>

NextCollision ==
    \/ CollisionValidate
    \/ CalculatePositions
    \/ GenerateTrajectoryPoints
    \/ SaveTrajectoriesToTxt

SpecCollision == InitCollision /\ [][NextCollision]_vars

\* The input is one the claim calls invalid.
InvalidCollisionInput(in) ==
    \/ in.ttc < 3500000
    \/ in.ttc > 4500000
    \/ in.v1 <= 0
    \/ in.v2 <= 0
    \/ in.v2 > 5000
    \/ in.v2 * (in.ttc \div 1000) > 5250000

\* C26: with TTC outside [3.5, 4.5], v1 <= 0, v2 <= 0, v2 > 5 or
\* v2 * TTC > 5.25 each of calculate_positions, generate_trajectory_points
\* and save_trajectories_to_txt raises ValueError, returns no positions and
\* no points, and opens neither output file.
C26_InvalidInputRejected ==
    (call_fn \in CollisionMethodSet /\ InvalidCollisionInput(call_in)) =>
      /\ call_pc \in {"call", "raised"}
      /\ call_pc = "raised" => call_err = "ValueError"
      /\ call_out = NoCollisionOutput

\* C26 witness: save_trajectories_to_txt has raised for a valid TTC and
\* valid speeds whose product v2 * TTC = 6 exceeds 5.25.
C26_Witness ==
    /\ call_fn = "save_trajectories_to_txt"
    /\ call_in = [ttc |-> 4000000, v1 |-> 10000, v2 |-> 1500]
    /\ call_pc = "raised"
    /\ call_err = "ValueError"
    /\ ~call_out.vehicle_file.opened


\* Two positions agree within the rounding of the model (2 mm)
Near(a, b) == Abs(a - b) <= 2

\* C27: for a valid input the phases of the trajectories of
\* generate_trajectory_points join continuously; the vehicle is at B at
\* t = v1 / a_vehicle and its last sample is at x = 0; the pedestrian is at A
\* at t = v2 / a_pedestrian and at y = 0 at t = v2 / a_pedestrian + TTC; its
\* y never increases from sample to sample, is never below
\* -post_collision_distance, and its last sample is at
\* y = -post_collision_distance.
C27_PhasesJoinAndHitKeyPoints ==
    (call_fn = "generate_trajectory_points" /\ call_pc = "returned") =>
      LET in  == call_in
          pos == calculate_positions(in)
          tv  == t_acc(in.v1, a_vehicle)
          tp  == t_acc(in.v2, a_pedestrian)
          xs  == call_out.traj.vehicle_x
          ys  == call_out.traj.pedestrian_y
      IN  /\ Near(vehicle_x_accelerating(in, pos, tv), vehicle_x_cruising(in, pos, tv))
          /\ Near(pedestrian_y_accelerating(in, pos, tp), pedestrian_y_cruising(in, pos, tp))
          /\ Near(pedestrian_y_cruising(in, pos, tp + in.ttc),
                  pedestrian_y_after(in, pos, tp + in.ttc))
          /\ Near(vehicle_x(in, pos, tv), pos.vehicle.trigger[1])
          /\ Len(xs) > 0 /\ Near(xs[Len(xs)], 0)
          /\ Near(pedestrian_y(in, pos, tp), pos.pedestrian.trigger[2])
          /\ Near(pedestrian_y(in, pos, tp + in.ttc), 0)
          /\ \A k \in 1..(Len(ys) - 1) : ys[k + 1] <= ys[k]
          /\ \A k \in DOMAIN ys : ys[k] >= 0 - post_collision_distance
          /\ Len(ys) > 0 /\ Near(ys[Len(ys)], 0 - post_collision_distance)

\* C27 witness: generate_trajectory_points has returned for TTC = 4,
\* v1 = 10, v2 = 1.1 with 200 samples, the vehicle's from F = -54.409 on, the
\* pedestrian's with samples in each of its three phases.
C27_Witness ==
    /\ call_fn = "generate_trajectory_points"
    /\ call_pc = "returned"
    /\ call_in = [ttc |-> 4000000, v1 |-> 10000, v2 |-> 1100]
    /\ Len(call_out.traj.vehicle_x) = 200
    /\ call_out.traj.vehicle_x[1] = -54409
    /\ \E k \in DOMAIN call_out.traj.pedestrian_y :
          /\ call_out.traj.pedestrian_time[k] < t_acc(call_in.v2, a_pedestrian)
          /\ call_out.traj.pedestrian_y[k] > 4400
    /\ \E k \in DOMAIN call_out.traj.pedestrian_y :
          /\ call_out.traj.pedestrian_y[k] < 0
          /\ call_out.traj.pedestrian_y[k] > 0 - post_collision_distance

(***************************************************************************)
(* RoundaboutScenario.py: RoundaboutCollisionGenerator.calculate_trajectory *)
(* (lines 17-42) run on its own, and the Ego pose of generate_full_xosc    *)
(* (lines 46-49).                                                          *)
(***************************************************************************)
\* The attributes the generator is run with: the shipped ones and other
\* values of ttc, v_target_kmh and collision_angle_deg.
RoundaboutConfigSet ==
    { [radius |-> radius, v_target_kmh |-> v, ttc |-> c, collision_angle_deg |-> g] :
        v \in {25, v_target_kmh}, c \in {3000, ttc, 4500}, g \in {90, collision_angle_deg} }

\* Line 14
sim_duration_of(cfg) == cfg.ttc + 3000

\* Line 26: len(np.arange(0, sim_duration, sample_rate))
arange_len(stop, step) == CeilDiv(stop, step)

\* round(v, 4) of an angle in microradian
round4(v) == 100 * RoundDiv(v, 100)

\* Lines 29-40: the point at time t
trajectory_point(cfg, t) ==
    LET current_rad == start_rad_of(cfg) + angular_travel(cfg.v_target_kmh, cfg.radius, t)
    IN  [time |-> t,
         x |-> Scale(cfg.radius, Cos(current_rad)),
         y |-> Scale(cfg.radius, Sin(current_rad)),
         h |-> round4(current_rad + HALF_PI)]

\* Lines 46-49: ego_x, ego_y, ego_h
ego_pose(cfg) ==
    LET coll_rad == RoundDiv(cfg.collision_angle_deg * PI, 180)
    IN  [x |-> Scale(cfg.radius, Cos(coll_rad)),
         y |-> Scale(cfg.radius, Sin(coll_rad)),
         h |-> coll_rad + PI]

InitRoundabout ==
    /\ call_fn = "calculate_trajectory"
    /\ call_in \in RoundaboutConfigSet
    /\ call_pc = "loop"
    /\ call_i = 0
    /\ call_out = <<>>
    /\ call_err = "none"
    /\ IdleVT1
    /\ IdleArc
    /\ IdleQuintic
    /\ IdleVUT
    /\ IdlePlan
    /\ IdleRoads
    /\ IdleClothoid
    /\ IdleXosc
    /\ IdleWriter

\* Lines 28-41: one pass of the loop, for times[call_i]
RoundaboutSample ==
    /\ call_fn = "calculate_trajectory"
    /\ call_pc = "loop"
    /\ call_i < arange_len(sim_duration_of(call_in), sample_rate)
    /\ call_out' = Append(call_out, trajectory_point(call_in, call_i * sample_rate))
    /\ call_i' = call_i + 1
    /\ UNCHANGED <<notCall, call_fn, call_in, call_pc, call_err>>

\* Line 42
RoundaboutReturn ==
    /\ call_fn = "calculate_trajectory"
    /\ call_pc = "loop"
    /\ call_i >= arange_len(sim_duration_of(call_in), sample_rate)
    /\ call_pc' = "returned"
    /\ UNCHANGED <<notCall, call_fn, call_in, call_i, call_out, call_err>>

NextRoundabout ==
    \/ RoundaboutSample
    \/ RoundaboutReturn

SpecRoundabout == InitRoundabout /\ [][NextRoundabout]_vars

\* Two angles agree up to whole turns, within 0.0005 rad
SameDirection(a, b) == Abs(normalize_angle(a - b)) <= 500

\* C28: every sample of calculate_trajectory lies on the circle of the
\* configured radius at the angle start + (v / R) * t, start being the
\* collision angle less the angle travelled in TTC seconds, with heading
\* angle + pi/2; the sample times are k * sample_rate, k = 0, 1, ..., all of
\* them in [0, sim_duration); and the position at t = TTC is the position
\* generate_full_xosc gives the Ego.
C28_TargetAtCollisionAngleAtTTC ==
    call_fn = "calculate_trajectory" =>
      LET cfg == call_in
          coll_rad == RoundDiv(cfg.collision_angle_deg * PI, 180)
          omega_t(t) == MulDivRound(speed_of_kmh(cfg.v_target_kmh), t, cfg.radius \div 1000)
      IN  /\ \A j \in DOMAIN call_out :
                LET p == call_out[j]
                    angle == coll_rad + omega_t(p.time) - omega_t(cfg.ttc)
                IN  /\ p.time = (j - 1) * sample_rate
                    /\ 0 <= p.time /\ p.time < sim_duration_of(cfg)
                    /\ Abs(Hypot(p.x, p.y) - cfg.radius) <= 2 + cfg.radius \div 5000
                    /\ SameDirection(Atan2(p.y, p.x), angle)
                    /\ Abs(p.h - (angle + HALF_PI)) <= 50
          /\ call_pc = "returned" => Len(call_out) * sample_rate >= sim_duration_of(cfg)
          /\ Near(trajectory_point(cfg, cfg.ttc).x, ego_pose(cfg).x)
          /\ Near(trajectory_point(cfg, cfg.ttc).y, ego_pose(cfg).y)
          /\ \A j \in DOMAIN call_out :
                call_out[j].time = cfg.ttc =>
                   /\ Near(call_out[j].x, ego_pose(cfg).x)
                   /\ Near(call_out[j].y, ego_pose(cfg).y)

\* C28 witness: the shipped generator has returned its 67 samples, the last
\* at t = 6.6, and the sample at t = 3.7 is at (0, -20), the Ego's position.
C28_Witness ==
    /\ call_fn = "calculate_trajectory"
    /\ call_in = shipped_roundabout
    /\ call_pc = "returned"
    /\ Len(call_out) = 67
    /\ call_out[67].time = 6600
    /\ call_out[38].time = ttc
    /\ Near(call_out[38].x, 0) /\ Near(call_out[38].y, 0 - radius)
    /\ Near(ego_pose(call_in).y, 0 - radius)

(***************************************************************************)
(* odrextrator.py: extract_professional.  A road is its id, its junction   *)
(* attribute ("None" where the attribute is absent) and the predecessor and *)
(* successor of its link; a junction is its id and the connectingRoad      *)
(* attributes of its connections.                                          *)
(***************************************************************************)
\* No predecessor / successor element
NoLink == [elementType |-> "none", elementId |-> ""]

link_to(type, id) == [elementType |-> type, elementId |-> id]

road(id, junction, predecessor, successor) ==
    [id |-> id, junction |-> junction, predecessor |-> predecessor, successor |-> successor]

junction(id, connectingRoads) == [id |-> id, connectingRoads |-> connectingRoads]

\* The road networks of the model: roads 1, 2 and 3 and junctions 10 and 11;
\* no road 9 and no junction 12, which links, connections and junction
\* attributes name all the same.
Road1Set ==
    { road("1", j, p, s) :
        j \in {"None", "-1", "10"},
        p \in {NoLink, link_to("road", "9")},
        s \in {NoLink, link_to("road", "2"), link_to("road", "9"), link_to("junction", "10")} }

Road2Set ==
    { road("2", j, NoLink, s) :
        j \in {"-1", "11", "12"},
        s \in {NoLink, link_to("road", "1"), link_to("road", "9")} }

Junction10Set == { junction("10", c) : c \in SUBSET {"2", "9"} }

OdrSeedSet == { {}, {"1"}, {"2"}, {"3"}, {"9"}, {"1", "2"}, {"1", "9"} }

OdrInputSet ==
    { [parsable |-> TRUE,
       roads |-> {r1, r2, road("3", "11", NoLink, link_to("road", "2"))},
       junctions |-> {j10, junction("11", {"1", "3"})},
       seeds |-> seeds] :
        r1 \in Road1Set, r2 \in Road2Set, j10 \in Junction10Set, seeds \in OdrSeedSet }
    \cup { [parsable |-> FALSE, roads |-> {}, junctions |-> {}, seeds |-> {"1"}] }

\* Nothing extracted, nothing written
NoExtraction ==
    [extraction_road_ids |-> {}, involved_junction_ids |-> {}, roads |-> {},
     junctions |-> {}, written |-> FALSE]

\* Line 26: if jid and jid != "-1"
in_junction(r) == r.junction \notin {"None", "", "-1"}

\* Lines 22-27
involved_junctions(doc, ids) ==
    { r.junction : r \in { q \in doc.roads : q.id \in ids /\ in_junction(q) } }

\* No road taken from the junctions
connecting_roads_ignored(doc, involved) == {}

\* Lines 31-38
connecting_roads(doc, involved) ==
    UNION { j.connectingRoads : j \in { q \in doc.junctions : q.id \in involved } }

\* Lines 66-71
cut_link(item, extraction_road_ids) ==
    IF item.elementType = "road" /\ item.elementId \notin extraction_road_ids
    THEN NoLink ELSE item

InitOdr ==
    /\ call_fn = "extract_professional"
    /\ call_in \in OdrInputSet
    /\ call_pc = "call"
    /\ call_i = 0
    /\ call_out = NoExtraction
    /\ call_err = "none"
    /\ IdleVT1
    /\ IdleArc
    /\ IdleQuintic
    /\ IdleVUT
    /\ IdlePlan
    /\ IdleRoads
    /\ IdleClothoid
    /\ IdleXosc
    /\ IdleWriter

\* Lines 6-15
OdrParse ==
    /\ call_fn = "extract_professional"
    /\ call_pc = "call"
    /\ call_pc' = IF call_in.parsable THEN "scan" ELSE "returned"
    /\ UNCHANGED <<notCall, call_fn, call_in, call_i, call_out, call_err>>

\* Lines 19-27
OdrScanSeeds ==
    /\ call_fn = "extract_professional"
    /\ call_pc = "scan"
    /\ call_out' = [call_out EXCEPT
                      !.extraction_road_ids = call_in.seeds,
                      !.involved_junction_ids = involved_junctions(call_in, call_in.seeds)]
    /\ call_pc' = "expand"
    /\ UNCHANGED <<notCall, call_fn, call_in, call_i, call_err>>

\* Lines 30-39
OdrExpand ==
    /\ call_fn = "extract_professional"
    /\ call_pc = "expand"
    /\ call_out' = [call_out EXCEPT
                      !.extraction_road_ids =
                          @ \cup connecting_roads(call_in, call_out.involved_junction_ids)]
    /\ call_pc' = "roads"
    /\ UNCHANGED <<notCall, call_fn, call_in, call_i, call_err>>

\* Lines 54-74
OdrExtractRoads ==
    /\ call_fn = "extract_professional"
    /\ call_pc = "roads"
    /\ call_out' = [call_out EXCEPT
                      !.roads =
                         { [r EXCEPT
                              !.predecessor = cut_link(@, call_out.extraction_road_ids),
                              !.successor = cut_link(@, call_out.extraction_road_ids)] :
                           r \in { q \in call_in.roads :
                                     q.id \in call_out.extraction_road_ids } }]
    /\ call_pc' = "junctions"
    /\ UNCHANGED <<notCall, call_fn, call_in, call_i, call_err>>

\* Lines 77-81, 122-123
OdrExtractJunctions ==
    /\ call_fn = "extract_professional"
    /\ call_pc = "junctions"
    /\ call_out' = [call_out EXCEPT
                      !.junctions = { j \in call_in.junctions :
                                        j.id \in call_out.involved_junction_ids },
                      !.written = TRUE]
    /\ call_pc' = "written"
    /\ UNCHANGED <<notCall, call_fn, call_in, call_i, call_err>>

NextOdr ==
    \/ OdrParse
    \/ OdrScanSeeds
    \/ OdrExpand
    \/ OdrExtractRoads
    \/ OdrExtractJunctions

SpecOdr == InitOdr /\ [][NextOdr]_vars

\* The ids of a set of roads or junctions
ids_of(elements) == { e.id : e \in elements }

\* C29: in the document extract_professional writes, no road has a
\* predecessor or successor of elementType road whose elementId is not the
\* id of a road of that document.
C29_NoLinkOutOfOutput ==
    (call_fn = "extract_professional" /\ call_pc = "written") =>
      \A r \in call_out.roads :
        \A item \in {r.predecessor, r.successor} :
          item.elementType = "road" => item.elementId \in ids_of(call_out.roads)

\* C30: every junction that a seed road of the input names in its junction
\* attribute (present, not "-1") and that the input has is in the output,
\* with every connectingRoad of its connections that is a road of the input
\* among the output roads; and the output has no junction that no seed road
\* names.
C30_JunctionCompleteness ==
    (call_fn = "extract_professional" /\ call_pc = "written") =>
      LET seed_roads == { r \in call_in.roads : r.id \in call_in.seeds }
      IN  /\ \A r \in seed_roads :
                (r.junction \notin {"None", "-1"}) =>
                   \A j \in call_in.junctions :
                      j.id = r.junction =>
                        /\ j \in call_out.junctions
                        /\ (j.connectingRoads \cap ids_of(call_in.roads))
                              \subseteq ids_of(call_out.roads)
          /\ \A j \in call_out.junctions : \E r \in seed_roads : r.junction = j.id

\* C30 witness: road 1, the only seed, is in junction 10, whose connections
\* name road 2, a road of junction 11; the output has roads 1 and 2 and
\* junction 10 and not junction 11.
C30_Witness ==
    /\ call_fn = "extract_professional"
    /\ call_pc = "written"
    /\ call_in.seeds = {"1"}
    /\ \E r \in call_in.roads : r.id = "1" /\ r.junction = "10"
    /\ \E r \in call_in.roads : r.id = "2" /\ r.junction = "11"
    /\ ids_of(call_out.roads) = {"1", "2"}
    /\ ids_of(call_out.junctions) = {"10"}

=============================================================================
